---- MODULE Spec2Model ----
(***************************************************************************)
(* A model of claude-code-cost: the pricing resolver and cost calculator   *)
(* (billing.py), the configuration deep merge (billing.py, config.py) and  *)
(* the statistics aggregator (analyzer.py).                                *)
(*                                                                         *)
(* Python strings are sequences of one-character strings, so that lower()  *)
(* and the substring test are computed.  Costs are exact rationals n/d:    *)
(* the rounding of Python floats is not modelled.                          *)
(***************************************************************************)
EXTENDS Integers, Sequences, FiniteSets, TLC

VARIABLES
    project_stats,       \* analyzer.project_stats: project name -> ProjectStats
    daily_stats,         \* analyzer.daily_stats: date string -> DailyStats
    model_stats,         \* analyzer.model_stats: model name -> ModelStats
    pricing_config,      \* analyzer.pricing_config / the pricing_config argument
    currency_config,     \* analyzer.currency_config / the currency_config argument
    model_config_cache,  \* analyzer.model_config_cache / the model_config_cache argument
    pc,                  \* where the run, the call or the loader is
    cur_project,         \* project_name of the directory being analysed
    fallback_date,       \* fallback_date of the file being processed
    nrec,                \* number of lines handled so far in the run
    data,                \* the record last handed to _process_message
    ret,                 \* how that call ended: "True", "False", "raise", or "none"
    call,                \* arguments of the last direct calculate_model_cost call
    result,              \* what that call returned
    heap,                \* the dict objects of a deep_merge call, by address
    roots,               \* addresses of base_dict, update_dict and the returned dict
    sources,             \* what load_full_config finds at its three override sources
    report,              \* the rows of the daily table of the last report
    messages_processed,  \* messages_processed of the file being processed
    file_messages,       \* what the last _process_jsonl_file call returned
    records,             \* the records of a batch: [project, fallback, data] each
    replay               \* the statistics of a second analyzer given the same batch

vars == <<project_stats, daily_stats, model_stats, pricing_config, currency_config,
          model_config_cache, pc, cur_project, fallback_date, nrec, data, ret,
          call, result, heap, roots, sources, report, messages_processed,
          file_messages,
          records, replay>>

-----------------------------------------------------------------------------
(* Python strings *)

\* str.lower(), one character
UpperCase == <<"A", "B", "C", "D", "E", "F", "G", "H", "I", "J", "K", "L", "M", "N", "O", "P", "Q", "R", "S", "T", "U", "V", "W", "X", "Y", "Z">>
LowerCase == <<"a", "b", "c", "d", "e", "f", "g", "h", "i", "j", "k", "l", "m", "n", "o", "p", "q", "r", "s", "t", "u", "v", "w", "x", "y", "z">>

LowerOf ==
    [c \in { UpperCase[i] : i \in 1..Len(UpperCase) } |->
        LowerCase[CHOOSE i \in 1..Len(UpperCase) : UpperCase[i] = c]]

Lower(c) == IF c \in DOMAIN LowerOf THEN LowerOf[c] ELSE c

StrLower(s) == [i \in 1..Len(s) |-> Lower(s[i])]

StrIn(k, s) ==
    \E i \in 0..(Len(s) - Len(k)) : SubSeq(s, i + 1, i + Len(k)) = k

Min(S) == CHOOSE x \in S : \A y \in S : x <= y

-----------------------------------------------------------------------------
(* Python floats, as exact rationals [n, d] with d > 0 in lowest terms *)

Abs(x) == IF x < 0 THEN -x ELSE x

RECURSIVE GCD(_, _)
GCD(a, b) == IF b = 0 THEN a ELSE GCD(b, a % b)

Rat(n, d) ==
    LET g == GCD(Abs(n), d)
    IN  [n |-> n \div g, d |-> d \div g]

Zero == [n |-> 0, d |-> 1]

RatAdd(x, y) ==
    LET g == GCD(x.d, y.d)
        l == (x.d \div g) * y.d
    IN  Rat(x.n * (l \div x.d) + y.n * (l \div y.d), l)

RatMul(x, y) ==
    LET a == Rat(x.n, y.d)
        b == Rat(y.n, x.d)
    IN  [n |-> a.n * b.n, d |-> a.d * b.d]

\* x / y for y > 0
RatDiv(x, y) == RatMul(x, [n |-> y.d, d |-> y.n])

RECURSIVE RatSum(_, _)
RatSum(f, S) ==
    IF S = {} THEN Zero
    ELSE LET x == CHOOSE x \in S : TRUE
         IN  RatAdd(f[x], RatSum(f, S \ {x}))

RECURSIVE IntSum(_, _)
IntSum(f, S) ==
    IF S = {} THEN 0
    ELSE LET x == CHOOSE x \in S : TRUE
         IN  f[x] + IntSum(f, S \ {x})

-----------------------------------------------------------------------------
(* Python values.  A dict with string keys is a TLA+ record holding the     *)
(* keys that are present, {} is the empty function and None is NoneVal.     *)
(* A value read from JSON (a model name) is tagged with its Python type.    *)

NoneVal == [none |-> TRUE]
EmptyDict == <<>>

\* Python's truth value of a dict-or-None
Truthy(v) == v # NoneVal /\ DOMAIN v # {}

\* dict.get(key, default)
Get(d, key, default) == IF key \in DOMAIN d THEN d[key] ELSE default

Str(s) == [t |-> "str", v |-> s]
NoneName == [t |-> "none", v |-> <<>>]
ListName == [t |-> "list", v |-> <<>>]

IsStr(x) == x.t = "str"
Hashable(x) == x.t # "list"

\* a rate or an exchange rate written in hundredths: Hundredths(375) is 3.75
Hundredths(h) == Rat(h, 100)

Num(n) == [num |-> n]
InfStr == [str |-> "inf"]

-----------------------------------------------------------------------------
(* billing.py *)

DEFAULT_USD_TO_CNY == Hundredths(700)

\* lines 216-219: the first key equal to the model name, ignoring case
ExactMatch(model_name, pricing) ==
    LET S == {i \in 1..Len(pricing) :
                StrLower(model_name.v) = StrLower(pricing[i].key)}
    IN  IF S = {} THEN NoneVal ELSE pricing[Min(S)].value

\* lines 223-226 (mutant: the longest key contained in the model name)
SubstringMatch_Longest(model_name, pricing) ==
    LET S == {i \in 1..Len(pricing) :
                StrIn(StrLower(pricing[i].key), StrLower(model_name.v))}
    IN  IF S = {} THEN NoneVal
        ELSE pricing[CHOOSE i \in S : \A j \in S :
                        \/ Len(pricing[j].key) < Len(pricing[i].key)
                        \/ (Len(pricing[j].key) = Len(pricing[i].key) /\ i <= j)].value

\* lines 223-226: the first key contained in the model name, ignoring case
SubstringMatch(model_name, pricing) ==
    LET S == {i \in 1..Len(pricing) :
                StrIn(StrLower(pricing[i].key), StrLower(model_name.v))}
    IN  IF S = {} THEN NoneVal ELSE pricing[Min(S)].value

\* lines 213-226 (mutant: an unmatched model falls back to the first rule)
FindModelConfig_Fallback(model_name, pricing) ==
    LET exact == ExactMatch(model_name, pricing)
        sub == SubstringMatch(model_name, pricing)
    IN  IF Truthy(exact) THEN exact
        ELSE IF Truthy(sub) THEN sub
        ELSE pricing[1].value

\* lines 213-226: model_config after both loops
FindModelConfig(model_name, pricing) ==
    LET exact == ExactMatch(model_name, pricing)
    IN  IF Truthy(exact) THEN exact ELSE SubstringMatch(model_name, pricing)

\* lines 249-255: the sort key, a pair compared lexicographically; <<1, 0>> is inf
SortKey(tier) ==
    IF "threshold" \notin DOMAIN tier THEN <<1, 0>>
    ELSE IF "str" \in DOMAIN tier.threshold THEN <<1, 0>>
    ELSE <<0, tier.threshold.num>>

KeyLess(a, b) == a[1] < b[1] \/ (a[1] = b[1] /\ a[2] < b[2])

\* line 257 (mutant: tiers with equal keys come out in reverse order)
TierBefore_TiesReversed(tiers, j, i) ==
    \/ KeyLess(SortKey(tiers[j]), SortKey(tiers[i]))
    \/ (SortKey(tiers[j]) = SortKey(tiers[i]) /\ j > i)

\* line 257: sorted() is stable: tiers with equal keys keep their listed order
TierBefore(tiers, j, i) ==
    \/ KeyLess(SortKey(tiers[j]), SortKey(tiers[i]))
    \/ (SortKey(tiers[j]) = SortKey(tiers[i]) /\ j < i)

SortedTiers(tiers) ==
    LET rank(i) == 1 + Cardinality({j \in 1..Len(tiers) : TierBefore(tiers, j, i)})
    IN  [p \in 1..Len(tiers) |-> tiers[CHOOSE i \in 1..Len(tiers) : rank(i) = p]]

\* lines 261-267 (mutant: the threshold is exclusive)
TierApplies_Exclusive(tier, input_tokens) ==
    \/ "threshold" \notin DOMAIN tier
    \/ "str" \in DOMAIN tier.threshold
    \/ input_tokens < tier.threshold.num

\* lines 261-267: whether the loop stops at this tier
TierApplies(tier, input_tokens) ==
    \/ "threshold" \notin DOMAIN tier
    \/ "str" \in DOMAIN tier.threshold
    \/ input_tokens <= tier.threshold.num

\* lines 260-271: selected_tier, NoneVal when the rule lists no tier
SelectTier(tiers, input_tokens) ==
    LET sorted_tiers == SortedTiers(tiers)
        S == {p \in 1..Len(sorted_tiers) : TierApplies(sorted_tiers[p], input_tokens)}
    IN  IF S # {} THEN sorted_tiers[Min(S)]
        ELSE IF Len(sorted_tiers) > 0 THEN sorted_tiers[Len(sorted_tiers)]
        ELSE NoneVal

\* lines 238-283 (mutant: a rate the selected tier lacks is read from the rule)
RateSource_FlatFallback(model_config, input_tokens) ==
    IF "tiers" \in DOMAIN model_config
    THEN LET selected_tier == SelectTier(model_config.tiers, input_tokens)
             tier == IF Truthy(selected_tier) THEN selected_tier ELSE EmptyDict
         IN  [k \in DOMAIN tier \cup (DOMAIN model_config \ {"tiers"}) |->
                 IF k \in DOMAIN tier THEN tier[k] ELSE model_config[k]]
    ELSE model_config

\* lines 238-283: the dict the four rates are read from (an empty dict: all rates 0)
RateSource(model_config, input_tokens) ==
    IF "tiers" \in DOMAIN model_config
    THEN LET selected_tier == SelectTier(model_config.tiers, input_tokens)
         IN  IF Truthy(selected_tier) THEN selected_tier ELSE EmptyDict
    ELSE model_config

\* lines 260-291 (mutant: the tier is selected by input plus output tokens)
TotalCost_TierByTotal(model_config, tk) ==
    LET src == RateSource(model_config, tk.input + tk.output)
    IN  RatAdd(RatAdd(RatAdd(
            RatMul(Rat(tk.input, 1000000), Get(src, "input_per_million", Zero)),
            RatMul(Rat(tk.output, 1000000), Get(src, "output_per_million", Zero))),
            RatMul(Rat(tk.cache_read, 1000000), Get(src, "cache_read_per_million", Zero))),
            RatMul(Rat(tk.cache_creation, 1000000), Get(src, "cache_write_per_million", Zero)))

\* lines 286-291
TokenCost(tokens, rate) == RatMul(Rat(tokens, 1000000), rate)

TotalCost(model_config, tk) ==
    LET src == RateSource(model_config, tk.input)
    IN  RatAdd(RatAdd(RatAdd(
            TokenCost(tk.input, Get(src, "input_per_million", Zero)),
            TokenCost(tk.output, Get(src, "output_per_million", Zero))),
            TokenCost(tk.cache_read, Get(src, "cache_read_per_million", Zero))),
            TokenCost(tk.cache_creation, Get(src, "cache_write_per_million", Zero)))

\* lines 294-298
ConvertModelCurrency(total_cost, model_config, currency) ==
    IF Get(model_config, "currency", "USD") = "CNY" /\ Truthy(currency)
    THEN RatDiv(total_cost, Get(currency, "usd_to_cny", DEFAULT_USD_TO_CNY))
    ELSE total_cost

\* line 209: the cache is a dict or None; [present, map]
NoCache == [present |-> FALSE, map |-> <<>>]
EmptyCache == [present |-> TRUE, map |-> <<>>]

CacheHit(model_name, cache) ==
    cache.present /\ DOMAIN cache.map # {} /\ model_name \in DOMAIN cache.map

\* lines 234-235 (mutant: the entry is stored without its rule)
CachePut_NoRule(cache, model_name, model_config) ==
    IF cache.present
    THEN [present |-> TRUE,
          map |-> [k \in DOMAIN cache.map \cup {model_name} |->
                     IF k = model_name THEN EmptyDict ELSE cache.map[k]]]
    ELSE cache

\* lines 234-235
CachePut(cache, model_name, model_config) ==
    IF cache.present
    THEN [present |-> TRUE,
          map |-> [k \in DOMAIN cache.map \cup {model_name} |->
                     IF k = model_name THEN model_config ELSE cache.map[k]]]
    ELSE cache

\* lines 179-300.  Returns [raised, cost, cache]: whether the call raised, the
\* cost returned and the cache as the call leaves it.
calculate_model_cost(model_name, tk, pricing, cache, currency) ==
    IF Len(pricing) = 0                                          \* line 205
    THEN [raised |-> FALSE, cost |-> Zero, cache |-> cache]
    ELSE IF cache.present /\ DOMAIN cache.map # {} /\ ~Hashable(model_name)
    THEN [raised |-> TRUE, cost |-> Zero, cache |-> cache]       \* line 209: TypeError
    ELSE IF CacheHit(model_name, cache)
    THEN [raised |-> FALSE,
          cost |-> ConvertModelCurrency(TotalCost(cache.map[model_name], tk),
                                        cache.map[model_name], currency),
          cache |-> cache]
    ELSE IF ~IsStr(model_name)
    THEN [raised |-> TRUE, cost |-> Zero, cache |-> cache]       \* line 217: AttributeError
    ELSE LET model_config == FindModelConfig(model_name, pricing)
         IN  IF ~Truthy(model_config)
             THEN [raised |-> FALSE, cost |-> Zero, cache |-> cache]
             ELSE [raised |-> FALSE,
                   cost |-> ConvertModelCurrency(TotalCost(model_config, tk),
                                                 model_config, currency),
                   cache |-> CachePut(cache, model_name, model_config)]

\* lines 38-92: the pricing of get_default_config, an ordered dict
sonnet == <<"s","o","n","n","e","t">>
opus == <<"o","p","u","s">>
gemini_2_5_pro == <<"g","e","m","i","n","i","-","2",".","5","-","p","r","o">>
gemini_1_5_pro == <<"g","e","m","i","n","i","-","1",".","5","-","p","r","o">>
qwen3_coder == <<"q","w","e","n","3","-","c","o","d","e","r">>

DefaultPricing ==
    << [key |-> sonnet,
        value |-> [input_per_million |-> Hundredths(300),
                   output_per_million |-> Hundredths(1500),
                   cache_read_per_million |-> Hundredths(30),
                   cache_write_per_million |-> Hundredths(375)]],
       [key |-> opus,
        value |-> [input_per_million |-> Hundredths(1500),
                   output_per_million |-> Hundredths(7500),
                   cache_read_per_million |-> Hundredths(150),
                   cache_write_per_million |-> Hundredths(1875)]],
       [key |-> gemini_2_5_pro,
        value |-> [tiers |->
                   << [threshold |-> Num(200000),
                       input_per_million |-> Hundredths(125),
                       output_per_million |-> Hundredths(1000)],
                      [input_per_million |-> Hundredths(250),
                       output_per_million |-> Hundredths(1500)] >>]],
       [key |-> gemini_1_5_pro,
        value |-> [input_per_million |-> Hundredths(125),
                   output_per_million |-> Hundredths(500)]],
       [key |-> qwen3_coder,
        value |-> [currency |-> "CNY",
                   tiers |->
                   << [threshold |-> Num(32000),
                       input_per_million |-> Hundredths(400),
                       output_per_million |-> Hundredths(1600)],
                      [threshold |-> Num(128000),
                       input_per_million |-> Hundredths(600),
                       output_per_million |-> Hundredths(2400)],
                      [threshold |-> Num(256000),
                       input_per_million |-> Hundredths(1000),
                       output_per_million |-> Hundredths(4000)],
                      [input_per_million |-> Hundredths(2000),
                       output_per_million |-> Hundredths(20000)] >>]] >>

\* lines 34-37: the currency of get_default_config
DefaultCurrency == [usd_to_cny |-> Hundredths(700), display_unit |-> "USD"]

-----------------------------------------------------------------------------
(* models.py *)

NoDate == <<>>

\* lines 5-18
ProjectStats(name) ==
    [project_name |-> name,
     total_input_tokens |-> 0,
     total_output_tokens |-> 0,
     total_cache_read_tokens |-> 0,
     total_cache_creation_tokens |-> 0,
     total_messages |-> 0,
     total_cost |-> Zero,
     models_used |-> <<>>,
     first_message_date |-> NoDate,
     last_message_date |-> NoDate]

\* lines 25-35
ModelStats(name) ==
    [model_name |-> name,
     total_input_tokens |-> 0,
     total_output_tokens |-> 0,
     total_cache_read_tokens |-> 0,
     total_cache_creation_tokens |-> 0,
     total_messages |-> 0,
     total_cost |-> Zero]

\* lines 42-55
DailyStats(date) ==
    [date |-> date,
     total_input_tokens |-> 0,
     total_output_tokens |-> 0,
     total_cache_read_tokens |-> 0,
     total_cache_creation_tokens |-> 0,
     total_messages |-> 0,
     total_cost |-> Zero,
     models_used |-> <<>>,
     projects_active |-> 0,
     project_breakdown |-> <<>>]

-----------------------------------------------------------------------------
(* analyzer.py: dates *)

Digits == <<"0", "1", "2", "3", "4", "5", "6", "7", "8", "9">>

Fmt2(n) == <<Digits[((n \div 10) % 10) + 1], Digits[(n % 10) + 1 ] >>

\* strftime("%Y-%m-%d")
FormatDate(y, m, d) == Fmt2(y \div 100) \o Fmt2(y) \o <<"-">> \o Fmt2(m) \o <<"-">> \o Fmt2(d)

Unknown == <<"u", "n", "k", "n", "o", "w", "n">>

\* code points of the characters of the date strings
Ord(c) ==
    CASE c = "-" -> 45
      [] c = "0" -> 48 [] c = "1" -> 49 [] c = "2" -> 50 [] c = "3" -> 51
      [] c = "4" -> 52 [] c = "5" -> 53 [] c = "6" -> 54 [] c = "7" -> 55
      [] c = "8" -> 56 [] c = "9" -> 57
      [] OTHER -> 117

\* Python's a < b on strings
StrLess(a, b) ==
    \E i \in 1..Len(b) :
        /\ i <= Len(a) + 1
        /\ \A j \in 1..(i - 1) : a[j] = b[j]
        /\ (i = Len(a) + 1 \/ Ord(a[i]) < Ord(b[i]))

\* lines 205-215.  A timestamp is [t, y, m, d, h]: t = "iso" for a string
\* fromisoformat parses (a UTC time of day h), "bad" for any other true value.
\* The machine's zone is UTC+8; the days used stay inside one month.
_convert_utc_to_local(ts) ==
    IF ts.t = "iso"
    THEN FormatDate(ts.y, ts.m, ts.d + (ts.h + 8) \div 24)
    ELSE Unknown

\* lines 254-262 (mutant: the file's creation date is used only when the
\* record has no timestamp at all)
AttributionDate_NoFallback(timestamp, fallback) ==
    IF timestamp.t # "empty" THEN _convert_utc_to_local(timestamp) ELSE fallback

\* lines 254-262
AttributionDate(timestamp, fallback) ==
    IF timestamp.t # "empty"
    THEN LET date_str == _convert_utc_to_local(timestamp)
         IN  IF date_str = Unknown /\ fallback # Unknown THEN fallback ELSE date_str
    ELSE fallback

-----------------------------------------------------------------------------
(* analyzer.py: _process_message *)

\* d[k] = v, as a new mapping
DictPut(d, k, v) == [x \in DOMAIN d \cup {k} |-> IF x = k THEN v ELSE d[x]]

\* the += of the four token counters, total_messages and total_cost
\* (lines 281-286, 306-311, 326-331, 343-348)
Accumulate(s, tk, message_cost) ==
    [s EXCEPT !.total_input_tokens = @ + tk.input,
              !.total_output_tokens = @ + tk.output,
              !.total_cache_read_tokens = @ + tk.cache_read,
              !.total_cache_creation_tokens = @ + tk.cache_creation,
              !.total_messages = @ + 1,
              !.total_cost = RatAdd(@, message_cost)]

\* lines 289-292, 314-317, 333-336
CountModel(s, model_name) ==
    [s EXCEPT !.models_used =
        IF model_name \in DOMAIN @
        THEN [@ EXCEPT ![model_name] = @ + 1]
        ELSE DictPut(@, model_name, 1)]

\* lines 237-240: int(usage.get(key) or 0).  A raw value is [int |-> n],
\* NoneVal (null), [text |-> TRUE] (text that is no number), [list |-> TRUE]
\* (a non-empty array or object) or [inf |-> TRUE] (a number too large for a
\* float, which json.loads reads as infinity).
TokenKeys ==
    <<"input_tokens", "output_tokens", "cache_read_input_tokens",
      "cache_creation_input_tokens">>

\* a variant in which int() never fails: what it cannot convert counts as 0
TokenError_Lenient(usage, key) == "none"

\* how int() ends for a field: ValueError and TypeError are what line 241
\* catches ("format"); int(inf) raises OverflowError, which it does not catch
TokenError(usage, key) ==
    IF key \notin DOMAIN usage THEN "none"
    ELSE IF "text" \in DOMAIN usage[key] \/ "list" \in DOMAIN usage[key] THEN "format"
    ELSE IF "inf" \in DOMAIN usage[key] THEN "overflow"
    ELSE "none"

\* the four conversions run in order: the first that fails ends the try block
FirstTokenError(usage) ==
    LET S == {i \in 1..Len(TokenKeys) : TokenError(usage, TokenKeys[i]) # "none"}
    IN  IF S = {} THEN "none" ELSE TokenError(usage, TokenKeys[Min(S)])

TokenInt(usage, key) ==
    IF key \in DOMAIN usage /\ "int" \in DOMAIN usage[key] THEN usage[key].int ELSE 0

Tokens(usage) ==
    [input |-> TokenInt(usage, "input_tokens"),
     output |-> TokenInt(usage, "output_tokens"),
     cache_read |-> TokenInt(usage, "cache_read_input_tokens"),
     cache_creation |-> TokenInt(usage, "cache_creation_input_tokens")]

unknown_model == <<"u", "n", "k", "n", "o", "w", "n">>

\* line 245 (mutant: the record is dropped only when it has no token at all)
IsEmptyUsage_AllCounters(tk) ==
    tk.input = 0 /\ tk.output = 0 /\ tk.cache_read = 0 /\ tk.cache_creation = 0

\* line 245
IsEmptyUsage(tk) == tk.input = 0 /\ tk.output = 0

\* An analyzer state st is [project_stats, daily_stats, model_stats,
\* model_config_cache]; each step below returns the state it leaves.

\* lines 281-286
UpdateProject(st, project_name, tk, message_cost) ==
    [st EXCEPT !.project_stats[project_name] = Accumulate(@, tk, message_cost)]

\* lines 289-292
UpdateProjectModels(st, project_name, model_name) ==
    [st EXCEPT !.project_stats[project_name] = CountModel(@, model_name)]

\* lines 295-299 (mutant: without the test of line 295)
UpdateDateRange_Always(st, project_name, date_str) ==
    [st EXCEPT !.project_stats[project_name] =
        [@ EXCEPT
           !.first_message_date =
              IF @ = NoDate \/ StrLess(date_str, @) THEN date_str ELSE @,
           !.last_message_date =
              IF @ = NoDate \/ StrLess(@, date_str) THEN date_str ELSE @]]

\* lines 295-299 (mutant: the last date is the date of the last record)
UpdateDateRange_LastSeen(st, project_name, date_str) ==
    IF date_str = Unknown THEN st
    ELSE [st EXCEPT !.project_stats[project_name] =
            [@ EXCEPT
               !.first_message_date =
                  IF @ = NoDate \/ StrLess(date_str, @) THEN date_str ELSE @,
               !.last_message_date = date_str]]

\* lines 295-299
UpdateDateRange(st, project_name, date_str) ==
    IF date_str = Unknown THEN st
    ELSE [st EXCEPT !.project_stats[project_name] =
            [@ EXCEPT
               !.first_message_date =
                  IF @ = NoDate \/ StrLess(date_str, @) THEN date_str ELSE @,
               !.last_message_date =
                  IF @ = NoDate \/ StrLess(@, date_str) THEN date_str ELSE @]]

\* lines 302-317 (mutant: the cost is added only when the day is created)
UpdateDaily_CostOnce(st, date_str, tk, message_cost, model_name) ==
    LET fresh == date_str \notin DOMAIN st.daily_stats
        old == IF fresh THEN DailyStats(date_str) ELSE st.daily_stats[date_str]
    IN  [st EXCEPT !.daily_stats =
            DictPut(@, date_str,
                    CountModel(Accumulate(old, tk, IF fresh THEN message_cost ELSE Zero),
                               model_name))]

\* lines 302-317
UpdateDaily(st, date_str, tk, message_cost, model_name) ==
    LET old == IF date_str \in DOMAIN st.daily_stats
               THEN st.daily_stats[date_str] ELSE DailyStats(date_str)
    IN  [st EXCEPT !.daily_stats =
            DictPut(@, date_str, CountModel(Accumulate(old, tk, message_cost), model_name))]

\* lines 320-336 (mutant: the day's entry of the project is created anew each time)
UpdateDailyProject_Recreate(st, date_str, project_name, tk, message_cost, model_name) ==
    [st EXCEPT !.daily_stats[date_str].project_breakdown =
        DictPut(@, project_name,
                CountModel(Accumulate(ProjectStats(project_name), tk, message_cost),
                           model_name))]

\* lines 320-336
UpdateDailyProject(st, date_str, project_name, tk, message_cost, model_name) ==
    LET breakdown == st.daily_stats[date_str].project_breakdown
        old == IF project_name \in DOMAIN breakdown
               THEN breakdown[project_name] ELSE ProjectStats(project_name)
    IN  [st EXCEPT !.daily_stats[date_str].project_breakdown =
            DictPut(@, project_name,
                    CountModel(Accumulate(old, tk, message_cost), model_name))]

\* lines 339-348
UpdateModel(st, model_name, tk, message_cost) ==
    LET old == IF model_name \in DOMAIN st.model_stats
               THEN st.model_stats[model_name] ELSE ModelStats(model_name)
    IN  [st EXCEPT !.model_stats = DictPut(@, model_name, Accumulate(old, tk, message_cost))]

\* lines 280-350: the updates after the cost is known.  `model_name in
\* models_used` (line 289) raises TypeError for a model that is a JSON array,
\* after lines 281-286 have run.
FoldRecord(st, project_name, tk, message_cost, model_name, date_str) ==
    LET s1 == UpdateProject(st, project_name, tk, message_cost)
    IN  IF ~Hashable(model_name)
        THEN [state |-> s1, ret |-> "raise"]
        ELSE LET s2 == UpdateProjectModels(s1, project_name, model_name)
                 s3 == UpdateDateRange(s2, project_name, date_str)
                 s4 == UpdateDaily(s3, date_str, tk, message_cost, model_name)
                 s5 == UpdateDailyProject(s4, date_str, project_name, tk,
                                          message_cost, model_name)
                 s6 == UpdateModel(s5, model_name, tk, message_cost)
             IN  [state |-> s6, ret |-> "True"]

\* lines 217-350.  data is the parsed line: [shape, type, message, timestamp].
\* Returns [state, ret]: ret is "True", "False" or "raise".
_process_message(st, d, project_name, fallback, pricing, currency) ==
    IF d.shape # "object" THEN [state |-> st, ret |-> "raise"]   \* line 222
    ELSE IF d.type # "assistant" THEN [state |-> st, ret |-> "False"]
    ELSE IF ~Truthy(d.message) THEN [state |-> st, ret |-> "False"]
    ELSE IF ~Truthy(Get(d.message, "usage", EmptyDict))
    THEN [state |-> st, ret |-> "False"]
    ELSE IF FirstTokenError(d.message.usage) = "overflow"
    THEN [state |-> st, ret |-> "raise"]                        \* line 237-240
    ELSE IF FirstTokenError(d.message.usage) = "format"
    THEN [state |-> st, ret |-> "False"]                        \* line 243
    ELSE LET tk == Tokens(d.message.usage)
         IN  IF IsEmptyUsage(tk) THEN [state |-> st, ret |-> "False"]
             ELSE LET model_name == Get(d.message, "model", Str(unknown_model))
                      date_str == AttributionDate(d.timestamp, fallback)
                      c == calculate_model_cost(model_name, tk, pricing,
                                                st.model_config_cache, currency)
                      message_cost == IF c.raised THEN Zero ELSE c.cost
                      s0 == [st EXCEPT !.model_config_cache = c.cache]
                  IN  FoldRecord(s0, project_name, tk, message_cost,
                                 model_name, date_str)

-----------------------------------------------------------------------------
(* The log lines of a run *)

MaxRecords == 3

IntVal(n) == [int |-> n]
TextVal == [text |-> TRUE]
ListVal == [list |-> TRUE]
InfVal == [inf |-> TRUE]

Usage(i, o, cr, cc) ==
    [input_tokens |-> i, output_tokens |-> o,
     cache_read_input_tokens |-> cr, cache_creation_input_tokens |-> cc]

Iso(y, m, d, h) == [t |-> "iso", y |-> y, m |-> m, d |-> d, h |-> h]
NoTimestamp == [t |-> "empty", y |-> 0, m |-> 0, d |-> 0, h |-> 0]
BadTimestamp == [t |-> "bad", y |-> 0, m |-> 0, d |-> 0, h |-> 0]

Assistant(usage, model_name, ts) ==
    [shape |-> "object", type |-> "assistant",
     message |-> [usage |-> usage, model |-> model_name], timestamp |-> ts]

claude_sonnet_4 == <<"c", "l", "a", "u", "d", "e", "-">> \o sonnet \o <<"-", "4">>
Claude_Opus == <<"C", "l", "a", "u", "d", "e", "-", "O", "p", "u", "s">>
gpt_4o == <<"g", "p", "t", "-", "4", "o">>

Morning == Iso(2024, 1, 1, 10)
Evening == Iso(2024, 1, 1, 20)

\* parsed lines a log file can hold
Lines ==
    { Assistant(Usage(IntVal(3), IntVal(2), IntVal(1), IntVal(1)), Str(claude_sonnet_4), Morning),
      Assistant(Usage(IntVal(2), NoneVal, IntVal(0), IntVal(0)), Str(gpt_4o), Evening),
      Assistant(Usage(IntVal(5), IntVal(1), IntVal(0), IntVal(0)), Str(qwen3_coder), NoTimestamp),
      Assistant(Usage(IntVal(-1), IntVal(2), IntVal(0), IntVal(0)), Str(Claude_Opus), BadTimestamp),
      Assistant(Usage(IntVal(1), IntVal(1), IntVal(0), IntVal(0)), ListName, Morning),
      Assistant(Usage(IntVal(0), IntVal(0), IntVal(5), IntVal(7)), Str(claude_sonnet_4), Morning),
      [shape |-> "object", type |-> "assistant",
       message |-> [usage |-> [output_tokens |-> NoneVal,
                               cache_creation_input_tokens |-> IntVal(9)],
                    model |-> Str(gpt_4o)],
       timestamp |-> NoTimestamp],
      Assistant(Usage(IntVal(1), TextVal, IntVal(0), IntVal(0)), Str(opus), Morning),
      [shape |-> "object", type |-> "user",
       message |-> [usage |-> Usage(IntVal(1), IntVal(1), IntVal(0), IntVal(0)),
                    model |-> Str(opus)],
       timestamp |-> Morning],
      [shape |-> "array", type |-> "", message |-> EmptyDict, timestamp |-> NoTimestamp] }

Projects == {"alpha", "beta"}

\* fallback_date: the file's creation date, or "unknown" when stat() fails
FallbackDates == {FormatDate(2024, 1, 2), Unknown}

\* line 37: the currency configuration of the analyzer
AnalyzerCurrencies == {DefaultCurrency}

NoData == [shape |-> "none", type |-> "", message |-> EmptyDict, timestamp |-> NoTimestamp]
NoTokens == [input |-> 0, output |-> 0, cache_read |-> 0, cache_creation |-> 0]
NoCall == [model_name |-> NoneName, tk |-> NoTokens]
NoResult == [raised |-> FALSE, cost |-> Zero, cache |-> NoCache]
NoSources == <<>>
NoReport == [daily_table |-> FALSE, rows |-> <<>>]

-----------------------------------------------------------------------------
(* analyzer.py: the run *)

State == [project_stats |-> project_stats, daily_stats |-> daily_stats,
          model_stats |-> model_stats, model_config_cache |-> model_config_cache]

\* lines 31-39: __init__
Init ==
    /\ project_stats = <<>>
    /\ daily_stats = <<>>
    /\ model_stats = <<>>
    /\ pricing_config = DefaultPricing
    /\ currency_config \in AnalyzerCurrencies
    /\ model_config_cache = EmptyCache
    /\ pc = "idle"
    /\ cur_project = ""
    /\ fallback_date = Unknown
    /\ nrec = 0
    /\ data = NoData
    /\ ret = "none"
    /\ call = NoCall
    /\ result = NoResult
    /\ sources = NoSources
    /\ report = NoReport
    /\ messages_processed = 0
    /\ file_messages = 0
    /\ records = <<>>
    /\ replay = <<>>
    /\ heap = <<>>
    /\ roots = <<>>

\* lines 71-75, 144-149: the loop of analyze_directory enters a directory
AnalyzeSingleDirectory(project_name) ==
    /\ pc = "idle"
    /\ pc' = "dir"
    /\ cur_project' = project_name
    /\ project_stats' = IF project_name \in DOMAIN project_stats THEN project_stats
                        ELSE DictPut(project_stats, project_name, ProjectStats(project_name))
    /\ UNCHANGED <<daily_stats, model_stats, pricing_config, currency_config,
                   model_config_cache, fallback_date, nrec, data, ret,
                   call, result, heap, roots, sources, report,
                   messages_processed, file_messages, records, replay>>

\* lines 158-160, 169-183: the next file of the directory is opened
ProcessJsonlFile(fallback) ==
    /\ pc = "dir"
    /\ pc' = "file"
    /\ fallback_date' = fallback
    /\ messages_processed' = 0                                   \* line 171
    /\ file_messages' = 0                                        \* not yet returned
    /\ UNCHANGED <<project_stats, daily_stats, model_stats, pricing_config,
                   currency_config, model_config_cache, cur_project, nrec, data, ret,
                   call, result, heap, roots, sources, report, records, replay>>

\* lines 184-195: one line of the file; an exception of _process_message is
\* logged and the loop goes on
ProcessLine(d) ==
    /\ pc = "file"
    /\ nrec < MaxRecords
    /\ \E r \in {_process_message(State, d, cur_project, fallback_date,
                                   pricing_config, currency_config)} :
           /\ project_stats' = r.state.project_stats
           /\ daily_stats' = r.state.daily_stats
           /\ model_stats' = r.state.model_stats
           /\ model_config_cache' = r.state.model_config_cache
           /\ ret' = r.ret
           /\ messages_processed' =                              \* lines 192-193
                 IF r.ret = "True" THEN messages_processed + 1 ELSE messages_processed
    /\ data' = d
    /\ nrec' = nrec + 1
    /\ UNCHANGED <<pricing_config, currency_config, pc, cur_project, fallback_date,
                   call, result, heap, roots, sources, report, file_messages,
                   records, replay>>

\* lines 200-203: the file is exhausted
EndOfFile ==
    /\ pc = "file"
    /\ pc' = "dir"
    /\ fallback_date' = Unknown
    /\ data' = NoData
    /\ ret' = "none"
    /\ file_messages' = messages_processed                       \* line 203
    /\ messages_processed' = 0                                   \* the local is gone
    /\ UNCHANGED <<project_stats, daily_stats, model_stats, pricing_config,
                   currency_config, model_config_cache, cur_project,
                   nrec, call, result, heap, roots, sources, report, records, replay>>

\* line 167 (mutant: a project without a message is dropped with its directory)
EndOfDirectory_DropsEmpty ==
    /\ pc = "dir"
    /\ pc' = "idle"
    /\ cur_project' = ""
    /\ file_messages' = 0
    /\ project_stats' =
          [p \in {k \in DOMAIN project_stats : project_stats[k].total_messages > 0} |->
              project_stats[p]]
    /\ UNCHANGED <<daily_stats, model_stats, pricing_config,
                   currency_config, model_config_cache, fallback_date,
                   nrec, data, ret, call, result, heap, roots, sources, report,
                   messages_processed, records, replay>>

\* line 167: the directory is exhausted
EndOfDirectory ==
    /\ pc = "dir"
    /\ pc' = "idle"
    /\ cur_project' = ""
    /\ file_messages' = 0                                        \* the local is gone
    /\ UNCHANGED <<project_stats, daily_stats, model_stats, pricing_config,
                   currency_config, model_config_cache, fallback_date,
                   nrec, data, ret, call, result, heap, roots, sources, report,
                   messages_processed, records, replay>>

\* lines 89-91 (mutant: every project of the run counts as active on every day)
SetProjectsActive_AllProjects ==
    /\ pc = "idle"
    /\ pc' = "done"
    /\ daily_stats' = [dt \in DOMAIN daily_stats |->
                         [daily_stats[dt] EXCEPT !.projects_active =
                             Cardinality(DOMAIN project_stats)]]
    /\ UNCHANGED <<project_stats, model_stats, pricing_config, currency_config,
                   model_config_cache, cur_project, fallback_date, nrec, data, ret,
                   call, result, heap, roots, sources, report,
                   messages_processed, file_messages, records, replay>>

\* lines 89-91: after the last directory
SetProjectsActive ==
    /\ pc = "idle"
    /\ pc' = "done"
    /\ daily_stats' = [dt \in DOMAIN daily_stats |->
                         [daily_stats[dt] EXCEPT !.projects_active =
                             Cardinality(DOMAIN daily_stats[dt].project_breakdown)]]
    /\ UNCHANGED <<project_stats, model_stats, pricing_config, currency_config,
                   model_config_cache, cur_project, fallback_date, nrec, data, ret,
                   call, result, heap, roots, sources, report,
                   messages_processed, file_messages, records, replay>>

Next ==
    \/ \E p \in Projects : AnalyzeSingleDirectory(p)
    \/ \E f \in FallbackDates : ProcessJsonlFile(f)
    \/ \E d \in Lines : ProcessLine(d)
    \/ EndOfFile
    \/ EndOfDirectory
    \/ SetProjectsActive

Spec == Init /\ [][Next]_vars

-----------------------------------------------------------------------------
(* cli.py lines 67-71: the run followed by the report.  The lines of this
   specification are the ones that matter to the dates of the report:
   records of several days, records without a timestamp or with one that
   fromisoformat rejects, and records whose token fields int() cannot
   convert. *)

ReportLines ==
    { Assistant(Usage(IntVal(3), IntVal(2), IntVal(1), IntVal(1)), Str(claude_sonnet_4), Morning),
      Assistant(Usage(IntVal(5), IntVal(1), IntVal(0), IntVal(0)), Str(qwen3_coder), NoTimestamp),
      Assistant(Usage(IntVal(2), NoneVal, IntVal(0), IntVal(0)), Str(gpt_4o), Evening),
      Assistant(Usage(IntVal(2), IntVal(1), IntVal(0), IntVal(0)), Str(opus), BadTimestamp),
      Assistant(Usage(IntVal(1), TextVal, IntVal(0), IntVal(0)), Str(opus), Morning),
      Assistant(Usage(ListVal, IntVal(1), IntVal(0), IntVal(0)), Str(claude_sonnet_4), Evening),
      Assistant(Usage(IntVal(1), IntVal(1), InfVal, TextVal), Str(claude_sonnet_4), Morning) }

ReportProjects == {"alpha", "beta"}

\* --max-days (cli.py line 38); 0 asks for every day
MaxDaysArgs == {0, 1, 2}

\* date.today(), as [y, m, d]: days of January
Todays == {[y |-> 2024, m |-> 1, d |-> 2], [y |-> 2024, m |-> 1, d |-> 3]}

\* (today - timedelta(days=k)).isoformat(), for a day of January and k < 31
DaysBefore(today, k) ==
    IF today.d - k >= 1
    THEN FormatDate(today.y, today.m, today.d - k)
    ELSE FormatDate(today.y - 1, 12, 31 + today.d - k)

\* sorted(keys, reverse=True)
RECURSIVE SortedReverse(_)
SortedReverse(S) ==
    IF S = {} THEN <<>>
    ELSE LET top == CHOOSE x \in S : \A y \in S : y = x \/ StrLess(y, x)
         IN  <<top>> \o SortedReverse(S \ {top})

\* line 360
valid_projects(ps) ==
    {p \in DOMAIN ps : ps[p].total_input_tokens + ps[p].total_output_tokens > 0}

\* line 438
valid_daily_stats(ds) ==
    {k \in DOMAIN ds : ds[k].total_input_tokens + ds[k].total_output_tokens > 0}

\* line 442
historical_stats(ds, today) ==
    {k \in valid_daily_stats(ds) : k # DaysBefore(today, 0)}

\* lines 461-468: the dates of the rows, in the order of the rows
date_list(ds, max_days, today) ==
    IF max_days > 0
    THEN LET recent == [i \in 1..max_days |-> DaysBefore(today, i)]
         IN  SelectSeq(recent, LAMBDA d : d \in valid_daily_stats(ds))
    ELSE SortedReverse(historical_stats(ds, today))

\* lines 352-481: the rows of the daily table; no table without a project that
\* counts tokens (line 362), nor without a day other than today (line 444)
_generate_rich_report(ps, ds, max_days, today) ==
    IF valid_projects(ps) = {} THEN NoReport
    ELSE IF historical_stats(ds, today) = {} THEN NoReport
    ELSE [daily_table |-> TRUE, rows |-> date_list(ds, max_days, today)]

\* cli.py line 71
GenerateRichReport(max_days, today) ==
    /\ pc = "done"
    /\ pc' = "reported"
    /\ report' = _generate_rich_report(project_stats, daily_stats, max_days, today)
    /\ UNCHANGED <<project_stats, daily_stats, model_stats, pricing_config, currency_config,
                   model_config_cache, cur_project, fallback_date, nrec, data, ret,
                   call, result, heap, roots, sources,
                   messages_processed, file_messages, records, replay>>

NextReport ==
    \/ \E p \in ReportProjects : AnalyzeSingleDirectory(p)
    \/ \E f \in FallbackDates : ProcessJsonlFile(f)
    \/ \E d \in ReportLines : ProcessLine(d)
    \/ EndOfFile
    \/ EndOfDirectory
    \/ SetProjectsActive
    \/ \E max_days \in MaxDaysArgs, today \in Todays : GenerateRichReport(max_days, today)

SpecReport == Init /\ [][NextReport]_vars

-----------------------------------------------------------------------------
(* analyzer.py: the run over directories as they are on disk.  A project
   directory is its name, as the parts between its hyphens, and the first
   line of each of its *.jsonl files; reading a file can fail at any line. *)

\* sep.join(parts)
RECURSIVE Join(_, _)
Join(parts, sep) ==
    IF Len(parts) = 0 THEN ""
    ELSE IF Len(parts) = 1 THEN parts[1]
    ELSE parts[1] \o sep \o Join(Tail(parts), sep)

\* first lines of a file: the file cannot be opened, its bytes are no UTF-8,
\* the line is empty, is no JSON, is a number, an array, an object without
\* "cwd", or an object whose "cwd" is a path with the last part `name`
Cwd(name) == [kind |-> "cwd", name |-> name]
FirstLineOf(kind) == [kind |-> kind, name |-> ""]

Returned(name) == [raised |-> FALSE, found |-> TRUE, name |-> name]
Raised == [raised |-> TRUE, found |-> FALSE, name |-> ""]
NotFound == [raised |-> FALSE, found |-> FALSE, name |-> ""]

\* lines 102-115: the loop over the files of the directory.  The except
\* clause names JSONDecodeError, IOError and KeyError: a UnicodeDecodeError of
\* readline and the TypeError of `"cwd" in data` on a number pass through it.
RECURSIVE ReadCwd(_)
ReadCwd(first_lines) ==
    IF Len(first_lines) = 0 THEN NotFound
    ELSE LET line == Head(first_lines)
         IN  IF line.kind \in {"undecodable", "number"} THEN Raised
             ELSE IF line.kind = "cwd" /\ line.name # "" THEN Returned(line.name)
             ELSE ReadCwd(Tail(first_lines))

\* lines 130-132 and 139-142: the shortened display of a path
DisplayPath(path_parts) ==
    IF Len(path_parts) > 3
    THEN path_parts[1] \o "/.../" \o path_parts[Len(path_parts)]
    ELSE Join(path_parts, "/")

\* lines 93-142; parts is dir_name.split("-"), whose first part is empty
\* since the directories of line 62 begin with a hyphen
_extract_project_name_from_dir(dir) ==
    LET parts == dir.parts
        n == Len(parts)
        read == ReadCwd(dir.first_lines)
        at == {i \in 2..(n - 1) : parts[i] = "Workspace"}
    IN  IF (\E i \in 1..n : parts[i] = "claude") /\ (\E i \in 1..n : parts[i] = "projects")
        THEN Returned(".claude/projects")                          \* lines 96-97
        ELSE IF read.raised \/ read.found THEN read                 \* lines 100-115
        ELSE IF at # {}                                             \* line 120
        THEN LET rest == SubSeq(parts, Min(at) + 1, n)
                 project_name == Join(rest, "-")
             IN  IF project_name \in {"", "-----", "------"}
                 THEN Returned("Workspace")
                 ELSE Returned(DisplayPath(rest))
        ELSE IF n >= 3                                              \* line 136
        THEN Returned(DisplayPath(IF n > 3 THEN SubSeq(parts, 4, n) ELSE <<parts[3]>>))
        ELSE Returned(Join(Tail(parts), "-"))                       \* line 142

\* directory names for each way lines 96-142 name a project
DirNames ==
    { <<"", "Users", "me", "Workspace", "alpha">>,
      <<"", "Users", "me", "beta">>,
      <<"", "beta">>,
      <<"", "claude", "projects">> }

FirstLines ==
    { Cwd("alpha"), Cwd(""), FirstLineOf("unreadable"), FirstLineOf("undecodable"),
      FirstLineOf("empty"), FirstLineOf("malformed"), FirstLineOf("number"),
      FirstLineOf("array"), FirstLineOf("object") }

\* the files of a directory, in the order glob yields them
FileLists ==
    {<<>>} \cup {<<line>> : line \in FirstLines}
           \cup { <<FirstLineOf("malformed"), Cwd("alpha")>>,
                  <<FirstLineOf("unreadable"), FirstLineOf("number")>> }

ProjectDirs ==
    {[parts |-> name, first_lines |-> lines] : name \in DirNames, lines \in FileLists}

RunLines ==
    { Assistant(Usage(IntVal(3), IntVal(2), IntVal(1), IntVal(1)), Str(claude_sonnet_4), Morning),
      Assistant(Usage(IntVal(5), IntVal(1), IntVal(0), IntVal(0)), Str(qwen3_coder), NoTimestamp),
      Assistant(Usage(IntVal(1), TextVal, IntVal(0), IntVal(0)), Str(opus), Morning),
      [shape |-> "array", type |-> "", message |-> EmptyDict, timestamp |-> NoTimestamp] }

\* lines 71-75: the name of the next directory is worked out, outside any try
\* block, and the directory is entered
AnalyzeProjectDir(dir) ==
    LET r == _extract_project_name_from_dir(dir)
    IN  IF r.raised
        THEN /\ pc = "idle"
             /\ pc' = "aborted"
             /\ UNCHANGED <<project_stats, daily_stats, model_stats, pricing_config,
                            currency_config, model_config_cache, cur_project,
                            fallback_date, nrec, data, ret, call, result, heap, roots,
                            sources, report, messages_processed, file_messages,
                            records, replay>>
        ELSE AnalyzeSingleDirectory(r.name)

\* lines 196-198: opening the file or reading its next line raises; the
\* records handled so far stay where they are and the call returns 0
FileReadError ==
    /\ pc = "file"
    /\ pc' = "dir"
    /\ fallback_date' = Unknown
    /\ data' = NoData
    /\ ret' = "none"
    /\ file_messages' = 0                                        \* line 198
    /\ messages_processed' = 0                                   \* the local is gone
    /\ UNCHANGED <<project_stats, daily_stats, model_stats, pricing_config,
                   currency_config, model_config_cache, cur_project,
                   nrec, call, result, heap, roots, sources, report, records, replay>>

NextRun ==
    \/ \E dir \in ProjectDirs : AnalyzeProjectDir(dir)
    \/ \E f \in FallbackDates : ProcessJsonlFile(f)
    \/ \E d \in RunLines : ProcessLine(d)
    \/ EndOfFile
    \/ FileReadError
    \/ EndOfDirectory
    \/ SetProjectsActive

SpecRun == Init /\ [][NextRun]_vars

-----------------------------------------------------------------------------
(* Direct calls of calculate_model_cost: catalogs, currencies and arguments *)

claude_3_sonnet == <<"c", "l", "a", "u", "d", "e", "-", "3", "-">> \o sonnet
claude_3_sonnet_20240229 ==
    claude_3_sonnet \o <<"-", "2", "0", "2", "4", "0", "2", "2", "9">>
Claude_3_Sonnet == <<"C", "l", "a", "u", "d", "e", "-", "3", "-", "S", "O", "N", "N", "E", "T">>

FlatA == DefaultPricing[1].value
FlatB == DefaultPricing[2].value
FlatCNY == [currency |-> "CNY", input_per_million |-> Hundredths(400),
            output_per_million |-> Hundredths(1600)]

\* catalogs of one or two of these keys, in either order, with any of these rules
ResolverKeys == {sonnet, claude_3_sonnet, opus}
ResolverRules == {FlatA, FlatB, EmptyDict, NoneVal}

\* a dict holds a key once
DuplicateKeys ==
    { << [key |-> k, value |-> v1], [key |-> k, value |-> v2] >> :
        k \in ResolverKeys, v1 \in ResolverRules, v2 \in ResolverRules }

ResolverCatalogs ==
    { << [key |-> k, value |-> v] >> : k \in ResolverKeys, v \in ResolverRules }
    \cup
    ({ << [key |-> k1, value |-> v1], [key |-> k2, value |-> v2] >> :
         k1 \in ResolverKeys, k2 \in ResolverKeys,
         v1 \in ResolverRules, v2 \in ResolverRules } \ DuplicateKeys)

\* tiers a rule can list, in any order and number up to MaxTiers
MaxTiers == 2

TierPool ==
    { [threshold |-> Num(10), input_per_million |-> Hundredths(100),
       output_per_million |-> Hundredths(200)],
      [threshold |-> Num(20), input_per_million |-> Hundredths(300),
       output_per_million |-> Hundredths(400), cache_read_per_million |-> Hundredths(50)],
      [threshold |-> Num(10), input_per_million |-> Hundredths(700)],
      [input_per_million |-> Hundredths(500), output_per_million |-> Hundredths(600)],
      [input_per_million |-> Hundredths(800), cache_write_per_million |-> Hundredths(150)],
      [threshold |-> InfStr, input_per_million |-> Hundredths(900)] }

TierLists ==
    UNION { { tl \in [1..n -> TierPool] : \A i, j \in 1..n : i # j => tl[i] # tl[j] } :
            n \in 0..MaxTiers }

TierCatalogs == { << [key |-> gemini_2_5_pro, value |-> [tiers |-> tl]] >> : tl \in TierLists }

\* a rule with tiers and with flat rates beside them, as deep_merge makes of a
\* flat override of a tiered default
FlatRates ==
    [input_per_million |-> Hundredths(1100), output_per_million |-> Hundredths(1300),
     cache_read_per_million |-> Hundredths(1700), cache_write_per_million |-> Hundredths(1900)]

MixedCatalogs ==
    { << [key |-> gemini_2_5_pro,
          value |-> [k \in DOMAIN FlatRates \cup {"tiers"} |->
                        IF k = "tiers" THEN tl ELSE FlatRates[k]]] >> : tl \in TierLists }

CurrencyCatalogs == { DefaultPricing, << [key |-> qwen3_coder, value |-> FlatCNY ] >>, <<>> }

Currencies ==
    { NoneVal, EmptyDict, DefaultCurrency,
      [usd_to_cny |-> Hundredths(800)], [display_unit |-> "CNY"] }

CallModels ==
    { Str(claude_3_sonnet_20240229), Str(Claude_3_Sonnet), Str(gemini_2_5_pro),
      Str(qwen3_coder), Str(gpt_4o), ListName }

Tk(i, o, cr, cc) == [input |-> i, output |-> o, cache_read |-> cr, cache_creation |-> cc]

CallTokens ==
    { Tk(10, 2, 1, 1), Tk(11, 2, 1, 1), Tk(20, 0, 3, 0), Tk(21, 5, 0, 0),
      Tk(200000, 1, 0, 0), Tk(200001, 1, 0, 0), Tk(1000000, 0, 0, 0) }

InitCost ==
    /\ project_stats = <<>>
    /\ daily_stats = <<>>
    /\ model_stats = <<>>
    /\ \/ pricing_config \in ResolverCatalogs /\ currency_config = DefaultCurrency
       \/ pricing_config \in TierCatalogs /\ currency_config = DefaultCurrency
       \/ pricing_config \in MixedCatalogs /\ currency_config = DefaultCurrency
       \/ pricing_config \in CurrencyCatalogs /\ currency_config \in Currencies
    /\ model_config_cache \in {NoCache, EmptyCache}
    /\ pc = "cost"
    /\ cur_project = ""
    /\ fallback_date = Unknown
    /\ nrec = 0
    /\ data = NoData
    /\ ret = "none"
    /\ call = NoCall
    /\ result = NoResult
    /\ sources = NoSources
    /\ report = NoReport
    /\ messages_processed = 0
    /\ file_messages = 0
    /\ records = <<>>
    /\ replay = <<>>
    /\ heap = <<>>
    /\ roots = <<>>

\* billing.py lines 179-300: one call, with the caller's cache
CallCost(model_name, tk) ==
    /\ pc = "cost"
    /\ pc' = "called"
    /\ call' = [model_name |-> model_name, tk |-> tk]
    /\ LET r == calculate_model_cost(model_name, tk, pricing_config,
                                     model_config_cache, currency_config)
       IN  /\ result' = r
           /\ model_config_cache' = r.cache
    /\ UNCHANGED <<project_stats, daily_stats, model_stats, pricing_config,
                   currency_config, cur_project, fallback_date, nrec, data, ret,
                   heap, roots, sources, report,
                   messages_processed, file_messages, records, replay>>

\* the caller has consumed the returned cost and goes on to its next call
NextCall ==
    /\ pc = "called"
    /\ pc' = "cost"
    /\ call' = NoCall
    /\ result' = NoResult
    /\ UNCHANGED <<project_stats, daily_stats, model_stats, pricing_config,
                   currency_config, model_config_cache, cur_project, fallback_date,
                   nrec, data, ret, heap, roots, sources, report,
                   messages_processed, file_messages, records, replay>>

NextCost ==
    \/ \E m \in CallModels, tk \in CallTokens : CallCost(m, tk)
    \/ NextCall

SpecCost == InitCost /\ [][NextCost]_vars

-----------------------------------------------------------------------------
(* billing.py / config.py: deep_merge.  Dicts are objects on a heap, addressed
   by their index; a dict is the ordered sequence of its items; an item's
   value is a scalar or a reference to another dict object. *)

Lit(x) == [lit |-> x]
Ref(a) == [ref |-> a]

\* isinstance(value, dict)
IsDict(value) == "ref" \in DOMAIN value

Keys(d) == { d[i].key : i \in 1..Len(d) }

\* key in d
HasKey(d, key) == key \in Keys(d)

\* d[key]
Lookup(d, key) == d[CHOOSE i \in 1..Len(d) : d[i].key = key].value

\* h[a][key] = value (mutant: a new key goes first)
SetItem_NewKeyFirst(h, a, key, value) ==
    IF HasKey(h[a], key)
    THEN [h EXCEPT ![a] = [i \in 1..Len(h[a]) |->
                             IF h[a][i].key = key
                             THEN [key |-> key, value |-> value]
                             ELSE h[a][i]]]
    ELSE [h EXCEPT ![a] = <<[key |-> key, value |-> value]>> \o h[a]]

\* h[a][key] = value : an existing key keeps its position, a new key goes last
SetItem(h, a, key, value) ==
    IF HasKey(h[a], key)
    THEN [h EXCEPT ![a] = [i \in 1..Len(h[a]) |->
                             IF h[a][i].key = key
                             THEN [key |-> key, value |-> value]
                             ELSE h[a][i]]]
    ELSE [h EXCEPT ![a] = Append(h[a], [key |-> key, value |-> value])]

\* result = base_dict, the same object instead of a copy
Copy_Alias(h, base_dict) == [heap |-> h, ret |-> base_dict]

\* result = base_dict.copy() : a new object with the same items (shallow)
Copy(h, base_dict) == [heap |-> Append(h, h[base_dict]), ret |-> Len(h) + 1]

RECURSIVE deep_merge(_, _, _)
RECURSIVE MergeItems(_, _, _, _)

\* the loop over update_dict.items(), from its i-th item on
MergeItems(h, res, update_dict, i) ==
    IF i > Len(h[update_dict])
    THEN [heap |-> h, ret |-> res]
    ELSE LET key == h[update_dict][i].key
             value == h[update_dict][i].value
         IN  IF HasKey(h[res], key) /\ IsDict(Lookup(h[res], key)) /\ IsDict(value)
             THEN LET m == deep_merge(h, Lookup(h[res], key).ref, value.ref)
                  IN  MergeItems(SetItem(m.heap, res, key, Ref(m.ret)),
                                 res, update_dict, i + 1)
             ELSE MergeItems(SetItem(h, res, key, value), res, update_dict, i + 1)

deep_merge(h, base_dict, update_dict) ==
    LET c == Copy(h, base_dict)
    IN  MergeItems(c.heap, c.ret, update_dict, 1)

-----------------------------------------------------------------------------
(* Calls of deep_merge on configurations as the loaders build them *)

k_currency == <<"c", "u", "r", "r", "e", "n", "c", "y">>
k_pricing == <<"p", "r", "i", "c", "i", "n", "g">>
k_usd_to_cny == <<"u", "s", "d", "_", "t", "o", "_", "c", "n", "y">>
k_input_per_million ==
    <<"i", "n", "p", "u", "t", "_", "p", "e", "r", "_", "m", "i", "l", "l", "i", "o", "n">>
k_output_per_million ==
    <<"o", "u", "t", "p", "u", "t", "_", "p", "e", "r", "_", "m", "i", "l", "l", "i", "o", "n">>

Item(key, value) == [key |-> key, value |-> value]
Dict(tree) == [dict |-> tree]

\* rate mappings of a rule
RateTrees ==
    { <<>>,
      << Item(k_input_per_million, Lit(3)) >>,
      << Item(k_input_per_million, Lit(5)), Item(k_output_per_million, Lit(15)) >>,
      << Item(k_output_per_million, Lit(7)), Item(k_input_per_million, Lit(1)) >> }

\* a catalog entry is a rule mapping or, in a malformed file, a scalar
RuleValues == { Lit(0) } \cup { Dict(r) : r \in RateTrees }

CatalogTrees ==
    { <<>> }
    \cup { << Item(sonnet, v) >> : v \in RuleValues }
    \cup { << Item(k[1], v), Item(k[2], Dict(<< Item(k_output_per_million, Lit(7)), Item(k_input_per_million, Lit(1)) >>)) >> :
             k \in { <<sonnet, opus>>, <<opus, sonnet>> }, v \in RuleValues }

CurrencyValues == { Lit(7), Dict(<< Item(k_usd_to_cny, Lit(8)) >>) }

\* a configuration: currency and pricing sections, either of them possibly missing
ConfigTrees ==
    { <<>> }
    \cup { << Item(k_pricing, v) >> : v \in {Lit(0)} \cup { Dict(c) : c \in CatalogTrees } }
    \cup { << Item(k_currency, cv), Item(k_pricing, Dict(c)) >> :
             cv \in CurrencyValues,
             c \in { << Item(sonnet, Dict(r)) >> : r \in RateTrees } }

RECURSIVE Alloc(_, _)
RECURSIVE AllocItems(_, _, _, _)

\* the dict objects a parsed document or a literal consists of, nested ones first
AllocItems(h, tree, i, items) ==
    IF i > Len(tree)
    THEN [heap |-> Append(h, items), ret |-> Len(h) + 1]
    ELSE IF "dict" \in DOMAIN tree[i].value
         THEN LET c == Alloc(h, tree[i].value.dict)
              IN  AllocItems(c.heap, tree, i + 1,
                             Append(items, Item(tree[i].key, Ref(c.ret))))
         ELSE AllocItems(h, tree, i + 1, Append(items, tree[i]))

Alloc(h, tree) == AllocItems(h, tree, 1, <<>>)

\* base and update are two documents, or one and the same object
InitMerge ==
    /\ project_stats = <<>>
    /\ daily_stats = <<>>
    /\ model_stats = <<>>
    /\ pricing_config = <<>>
    /\ currency_config = NoneVal
    /\ model_config_cache = NoCache
    /\ pc = "merge"
    /\ cur_project = ""
    /\ fallback_date = Unknown
    /\ nrec = 0
    /\ data = NoData
    /\ ret = "none"
    /\ call = NoCall
    /\ result = NoResult
    /\ sources = NoSources
    /\ report = NoReport
    /\ messages_processed = 0
    /\ file_messages = 0
    /\ records = <<>>
    /\ replay = <<>>
    /\ \E b \in ConfigTrees :
         LET hb == Alloc(<<>>, b)
         IN  \/ \E u \in ConfigTrees :
                  LET hu == Alloc(hb.heap, u)
                  IN  /\ heap = hu.heap
                      /\ roots = [base |-> hb.ret, update |-> hu.ret]
             \/ /\ heap = hb.heap
                /\ roots = [base |-> hb.ret, update |-> hb.ret]

\* billing.py lines 96-104: one call deep_merge(base, update)
DeepMerge ==
    /\ pc = "merge"
    /\ pc' = "merged"
    /\ LET m == deep_merge(heap, roots.base, roots.update)
       IN  /\ heap' = m.heap
           /\ roots' = [base |-> roots.base, update |-> roots.update, merged |-> m.ret]
    /\ UNCHANGED <<project_stats, daily_stats, model_stats, pricing_config,
                   currency_config, model_config_cache, cur_project, fallback_date,
                   nrec, data, ret, call, result, sources, report,
                   messages_processed, file_messages, records, replay>>

NextMerge == DeepMerge

SpecMerge == InitMerge /\ [][NextMerge]_vars

-----------------------------------------------------------------------------
(* billing.py / config.py: load_full_config.  The configuration is a dict
   object on the heap; every scalar of a document is a record, so that any
   two of them can be compared. *)

k_display_unit == <<"d", "i", "s", "p", "l", "a", "y", "_", "u", "n", "i", "t">>
k_tiers == <<"t", "i", "e", "r", "s">>
k_cache_read_per_million ==
    <<"c", "a", "c", "h", "e", "_", "r", "e", "a", "d", "_", "p", "e", "r", "_", "m", "i", "l", "l", "i", "o", "n">>
k_cache_write_per_million ==
    <<"c", "a", "c", "h", "e", "_", "w", "r", "i", "t", "e", "_", "p", "e", "r", "_", "m", "i", "l", "l", "i", "o", "n">>

\* a string and a list as scalars of a document
Text(s) == [s |-> s]
ListOf(l) == [list |-> l]

\* the keys a rule is written with, in the order get_default_config writes them
RuleFields ==
    << [name |-> "currency", key |-> k_currency],
       [name |-> "tiers", key |-> k_tiers],
       [name |-> "input_per_million", key |-> k_input_per_million],
       [name |-> "output_per_million", key |-> k_output_per_million],
       [name |-> "cache_read_per_million", key |-> k_cache_read_per_million],
       [name |-> "cache_write_per_million", key |-> k_cache_write_per_million] >>

\* a rule of the catalog as the nested mapping the configuration holds
TreeOfRule(rule) ==
    LET Present(f) == f.name \in DOMAIN rule
        fields == SelectSeq(RuleFields, Present)
    IN  [i \in 1..Len(fields) |->
            Item(fields[i].key,
                 IF fields[i].name = "currency" THEN Lit(Text(rule.currency))
                 ELSE IF fields[i].name = "tiers" THEN Lit(ListOf(rule.tiers))
                 ELSE Lit(rule[fields[i].name]))]

\* lines 31-93
get_default_config ==
    << Item(k_currency,
            Dict(<< Item(k_usd_to_cny, Lit(DefaultCurrency.usd_to_cny)),
                    Item(k_display_unit, Lit(Text(DefaultCurrency.display_unit))) >>)),
       Item(k_pricing,
            Dict([i \in 1..Len(DefaultPricing) |->
                    Item(DefaultPricing[i].key,
                         Dict(TreeOfRule(DefaultPricing[i].value)))])) >>

\* what a source of overrides can be: no file, a file that cannot be read, a
\* file the parser rejects, or a file parsed to a document
Missing == [t |-> "missing"]
Unreadable == [t |-> "unreadable"]
Malformed == [t |-> "malformed"]
Parsed(doc) == [t |-> "parsed", doc |-> doc]

\* documents: an empty file (None), a bare string, an empty mapping, mappings
DocNone == Lit(NoneVal)
DocText == Lit(Text("model_pricing"))

RateOverride ==
    << Item(k_currency, Dict(<< Item(k_usd_to_cny, Lit(Hundredths(800))) >>)) >>

CatalogOverride ==
    << Item(k_pricing,
            Dict(<< Item(sonnet, Dict(<< Item(k_input_per_million, Lit(Hundredths(500))) >>)),
                    Item(claude_3_sonnet,
                         Dict(<< Item(k_input_per_million, Lit(Hundredths(400))),
                                 Item(k_output_per_million, Lit(Hundredths(1600))) >>)) >>)) >>

Documents == { DocNone, DocText, Dict(<<>>), Dict(RateOverride), Dict(CatalogOverride) }

SourceStates == { Missing, Unreadable, Malformed } \cup { Parsed(doc) : doc \in Documents }

\* isinstance(user_config, dict)
IsMapping(doc) == "dict" \in DOMAIN doc

\* `if user_config:`
DocTruthy(doc) == IF IsMapping(doc) THEN Len(doc.dict) > 0 ELSE doc.lit # NoneVal

\* the except clause an exception raised while a source is loaded ends in:
\* line 128 for the packaged file, line 161 for the file beside the module,
\* line 158 for the file of the home directory
HandlerOf_HomeOnly(source) ==
    IF source = "home" THEN "line 158" ELSE "none"

HandlerOf(source) ==
    IF source = "packaged" THEN "line 128"
    ELSE IF source = "beside" THEN "line 161"
    ELSE "line 158"

\* reading and parsing a source and merging what it holds (lines 118-126,
\* 134-142, 148-156): [raised, heap, config].  deep_merge raises at
\* update_dict.items() for a document that is no mapping.
LoadSource(h, config, src) ==
    IF src.t # "parsed"
    THEN [raised |-> TRUE, heap |-> h, config |-> config]
    ELSE IF ~DocTruthy(src.doc)
    THEN [raised |-> FALSE, heap |-> h, config |-> config]
    ELSE IF ~IsMapping(src.doc)
    THEN [raised |-> TRUE, heap |-> h, config |-> config]
    ELSE LET user_config == Alloc(h, src.doc.dict)
             m == deep_merge(user_config.heap, config, user_config.ret)
         IN  [raised |-> FALSE, heap |-> m.heap, config |-> m.ret]

\* line 110, and the state of the machine's files
InitLoad ==
    /\ project_stats = <<>>
    /\ daily_stats = <<>>
    /\ model_stats = <<>>
    /\ pricing_config = <<>>
    /\ currency_config = NoneVal
    /\ model_config_cache = NoCache
    /\ pc = "packaged"
    /\ cur_project = ""
    /\ fallback_date = Unknown
    /\ nrec = 0
    /\ data = NoData
    /\ ret = "none"
    /\ call = NoCall
    /\ result = NoResult
    /\ report = NoReport
    /\ messages_processed = 0
    /\ file_messages = 0
    /\ records = <<>>
    /\ replay = <<>>
    /\ LET config == Alloc(<<>>, get_default_config)
       IN  /\ heap = config.heap
           /\ roots = [config |-> config.ret]
    /\ sources \in [importlib : BOOLEAN, packaged : SourceStates,
                    beside : SourceStates, home : SourceStates]

\* where the loader goes after an exception, by the clause that catches it
AfterException(source) ==
    IF HandlerOf(source) = "line 128" THEN "beside"
    ELSE IF HandlerOf(source) = "none" THEN "raised"
    ELSE "returned"

\* lines 114-129: the packaged file, when importlib.resources is there
LoadPackaged ==
    /\ pc = "packaged"
    /\ IF ~sources.importlib
       THEN pc' = "beside" /\ UNCHANGED <<heap, roots>>
       ELSE LET r == LoadSource(heap, roots.config, sources.packaged)
            IN  /\ heap' = r.heap
                /\ roots' = [config |-> r.config]
                /\ pc' = IF r.raised THEN AfterException("packaged") ELSE "returned"
    /\ UNCHANGED <<project_stats, daily_stats, model_stats, pricing_config,
                   currency_config, model_config_cache, cur_project, fallback_date,
                   nrec, data, ret, call, result, sources, report,
                   messages_processed, file_messages, records, replay>>

\* lines 132-142: the file beside the module
LoadBeside ==
    /\ pc = "beside"
    /\ IF sources.beside = Missing
       THEN pc' = "home" /\ UNCHANGED <<heap, roots>>
       ELSE LET r == LoadSource(heap, roots.config, sources.beside)
            IN  /\ heap' = r.heap
                /\ roots' = [config |-> r.config]
                /\ pc' = IF r.raised THEN AfterException("beside") ELSE "home"
    /\ UNCHANGED <<project_stats, daily_stats, model_stats, pricing_config,
                   currency_config, model_config_cache, cur_project, fallback_date,
                   nrec, data, ret, call, result, sources, report,
                   messages_processed, file_messages, records, replay>>

\* lines 145-164: the file of the home directory, and the return
LoadHome ==
    /\ pc = "home"
    /\ IF sources.home = Missing
       THEN pc' = "returned" /\ UNCHANGED <<heap, roots>>
       ELSE LET r == LoadSource(heap, roots.config, sources.home)
            IN  /\ heap' = r.heap
                /\ roots' = [config |-> r.config]
                /\ pc' = IF r.raised THEN AfterException("home") ELSE "returned"
    /\ UNCHANGED <<project_stats, daily_stats, model_stats, pricing_config,
                   currency_config, model_config_cache, cur_project, fallback_date,
                   nrec, data, ret, call, result, sources, report,
                   messages_processed, file_messages, records, replay>>

NextLoad == LoadPackaged \/ LoadBeside \/ LoadHome

SpecLoad == InitLoad /\ [][NextLoad]_vars

-----------------------------------------------------------------------------
(* Properties of the aggregator, checked under Spec *)

CounterFields ==
    {"total_input_tokens", "total_output_tokens", "total_cache_read_tokens",
     "total_cache_creation_tokens", "total_messages"}

\* the sum of an integer field, or of total_cost, over the values of a mapping
FieldSum(stats, f) == IntSum([k \in DOMAIN stats |-> stats[k][f]], DOMAIN stats)
CostSum(stats) == RatSum([k \in DOMAIN stats |-> stats[k].total_cost], DOMAIN stats)

LineStep == pc = "file" /\ nrec' = nrec + 1

\* C3: one call of _process_message changes all four views (the project, the
\* day, the day's entry of the project, the model) or none of them
BreakdownOf(ds) == [dt \in DOMAIN ds |-> ds[dt].project_breakdown]
DayTotalsOf(ds) == [dt \in DOMAIN ds |-> [ds[dt] EXCEPT !.project_breakdown = <<>>]]

C3_AllOrNothing ==
    [][LineStep =>
        LET project == project_stats' # project_stats
            day == DayTotalsOf(daily_stats') # DayTotalsOf(daily_stats)
            day_project == BreakdownOf(daily_stats') # BreakdownOf(daily_stats)
            model == model_stats' # model_stats
        IN  (project <=> day) /\ (day <=> day_project) /\ (day_project <=> model)]_vars

\* the raw value of a token field counts as 0: absent, null or the number 0
RawZero(usage, key) ==
    key \notin DOMAIN usage \/ usage[key] = NoneVal \/ usage[key] = IntVal(0)

HasUsage(d) ==
    /\ d.shape = "object"
    /\ d.type = "assistant"
    /\ "usage" \in DOMAIN d.message
    /\ DOMAIN d.message.usage # {}

ZeroRecord(d) ==
    /\ HasUsage(d)
    /\ RawZero(d.message.usage, "input_tokens")
    /\ RawZero(d.message.usage, "output_tokens")

\* C4: a record with input and output token counts 0 is discarded whatever its
\* cache counts: the call returns False, no aggregate and no cache entry changes
C4_ZeroTokensDiscarded ==
    [][(LineStep /\ ZeroRecord(data')) =>
        /\ ret' = "False"
        /\ UNCHANGED <<project_stats, daily_stats, model_stats, model_config_cache>>]_vars

C4_Witness ==
    /\ pc = "file"
    /\ ZeroRecord(data)
    /\ ~RawZero(data.message.usage, "cache_creation_input_tokens")
    /\ ret = "False"
    /\ project_stats[cur_project].total_messages = 2
    /\ DOMAIN daily_stats # {}

\* the record is valid, counts tokens, and its model is a name no key matches
UnmatchedRecord(d) ==
    /\ HasUsage(d)
    /\ FirstTokenError(d.message.usage) = "none"
    /\ ~ZeroRecord(d)
    /\ "model" \in DOMAIN d.message
    /\ IsStr(d.message.model)
    /\ \A i \in 1..Len(pricing_config) :
          ~StrIn(StrLower(pricing_config[i].key), StrLower(d.message.model.v))

\* new is old plus the record's tokens and one message, at the same cost
FoldedAtNoCost(old, new, tk) ==
    /\ new.total_input_tokens = old.total_input_tokens + tk.input
    /\ new.total_output_tokens = old.total_output_tokens + tk.output
    /\ new.total_cache_read_tokens = old.total_cache_read_tokens + tk.cache_read
    /\ new.total_cache_creation_tokens = old.total_cache_creation_tokens + tk.cache_creation
    /\ new.total_messages = old.total_messages + 1
    /\ new.total_cost = old.total_cost

OrNew(stats, k, new) == IF k \in DOMAIN stats THEN stats[k] ELSE new

\* C8: a record whose model name matches no catalog key is folded at cost 0:
\* tokens and one message are added to the four aggregates, no total_cost changes
C8_UnmatchedFoldedAtNoCost ==
    [][(LineStep /\ UnmatchedRecord(data')) =>
        LET tk == Tokens(data'.message.usage)
            m == data'.message.model
            dt == AttributionDate(data'.timestamp, fallback_date)
            old_day == OrNew(daily_stats, dt, DailyStats(dt))
        IN  /\ ret' = "True"
            /\ FoldedAtNoCost(project_stats[cur_project], project_stats'[cur_project], tk)
            /\ FoldedAtNoCost(old_day, daily_stats'[dt], tk)
            /\ FoldedAtNoCost(OrNew(old_day.project_breakdown, cur_project,
                                    ProjectStats(cur_project)),
                              daily_stats'[dt].project_breakdown[cur_project], tk)
            /\ FoldedAtNoCost(OrNew(model_stats, m, ModelStats(m)), model_stats'[m], tk)
            /\ \A p \in DOMAIN project_stats :
                  project_stats'[p].total_cost = project_stats[p].total_cost
            /\ \A d \in DOMAIN daily_stats :
                  daily_stats'[d].total_cost = daily_stats[d].total_cost
            /\ \A k \in DOMAIN model_stats :
                  model_stats'[k].total_cost = model_stats[k].total_cost]_vars

C8_Witness ==
    /\ pc = "file"
    /\ ret = "True"
    /\ UnmatchedRecord(data)
    /\ model_stats[data.message.model].total_messages = 2
    /\ model_stats[data.message.model].total_cost = Zero
    /\ project_stats[cur_project].total_cost # Zero

-----------------------------------------------------------------------------
(* Properties of calculate_model_cost, checked under SpecCost *)

Called == pc = "called" /\ IsStr(call.model_name)

\* the cost of the call's tokens at the rates and the currency of a rule
RuleCost(rule) == ConvertModelCurrency(TotalCost(rule, call.tk), rule, currency_config)

ExactKeys ==
    {i \in 1..Len(pricing_config) :
        StrLower(pricing_config[i].key) = StrLower(call.model_name.v)}

SubstringKeys ==
    {i \in 1..Len(pricing_config) :
        StrIn(StrLower(pricing_config[i].key), StrLower(call.model_name.v))}

\* the rule the call resolved
ResolvedRule == FindModelConfig(call.model_name, pricing_config)

TieredCall == Called /\ Truthy(ResolvedRule) /\ "tiers" \in DOMAIN ResolvedRule

\* a tier's threshold as a pair <<0, n>>, or <<1, 0>> for +infinity (no
\* threshold, or the text "inf")
ThresholdOf(tier) ==
    IF "threshold" \in DOMAIN tier /\ "num" \in DOMAIN tier.threshold
    THEN <<0, tier.threshold.num>> ELSE <<1, 0>>

Reaches(tier, n) == ThresholdOf(tier)[1] = 1 \/ n <= ThresholdOf(tier)[2]

Below(a, b) == a[1] < b[1] \/ (a[1] = b[1] /\ a[2] < b[2])

\* the tiers whose threshold is the smallest threshold >= n
SmallestReaching(tiers, n) ==
    {i \in 1..Len(tiers) :
        /\ Reaches(tiers[i], n)
        /\ \A j \in 1..Len(tiers) :
              Reaches(tiers[j], n) => ~Below(ThresholdOf(tiers[j]), ThresholdOf(tiers[i]))}

DistinctThresholds(tiers) ==
    \A i, j \in 1..Len(tiers) : i # j => ThresholdOf(tiers[i]) # ThresholdOf(tiers[j])

Perms(n) == {q \in [1..n -> 1..n] : \A i, j \in 1..n : i # j => q[i] # q[j]}

\* the costs the call's rule gives with its tiers listed in every order
ReorderedCosts ==
    LET tiers == ResolvedRule.tiers
    IN  {RuleCost([ResolvedRule EXCEPT !.tiers = [i \in 1..Len(tiers) |-> tiers[q[i]]]]) :
            q \in Perms(Len(tiers))}

\* the rates applied are those of a tier with the smallest threshold >= input_tokens
UsesSmallestReaching ==
    LET tiers == ResolvedRule.tiers
        S == SmallestReaching(tiers, call.tk.input)
    IN  S # {} =>
          \E i \in S :
             result.cost = ConvertModelCurrency(TotalCost(tiers[i], call.tk),
                                                ResolvedRule, currency_config)

C6_FirstSubstringWins ==
    (Called /\ ExactKeys = {} /\ SubstringKeys # {}) =>
        /\ ~result.raised
        /\ result.cost = RuleCost(pricing_config[Min(SubstringKeys)].value)

C6_Witness ==
    /\ Called
    /\ pricing_config = << [key |-> sonnet, value |-> FlatA],
                           [key |-> claude_3_sonnet, value |-> FlatB] >>
    /\ call.model_name = Str(claude_3_sonnet_20240229)
    /\ result.cost = RuleCost(FlatA)
    /\ result.cost # RuleCost(FlatB)

\* C7: a key equal to the model name, ignoring case, gives the rule, whatever
\* the catalog order and the rule's value
C7_ExactAlwaysWins ==
    (Called /\ ExactKeys # {}) =>
        \E i \in ExactKeys : result.cost = RuleCost(pricing_config[i].value)

\* the exchange rate of a currency configuration, 7.0 when it gives none
UsdToCny(currency) ==
    IF currency # NoneVal /\ "usd_to_cny" \in DOMAIN currency
    THEN currency.usd_to_cny ELSE Hundredths(700)

\* C9: the cost of a CNY rule is the rate-weighted sum divided by the exchange
\* rate, for every currency configuration; of any other rule, the sum itself
C9_CnyAlwaysDivided ==
    (Called /\ Truthy(ResolvedRule)) =>
        result.cost =
            IF "currency" \in DOMAIN ResolvedRule /\ ResolvedRule.currency = "CNY"
            THEN RatDiv(TotalCost(ResolvedRule, call.tk), UsdToCny(currency_config))
            ELSE TotalCost(ResolvedRule, call.tk)

-----------------------------------------------------------------------------
(* Properties of deep_merge, checked under SpecMerge *)

RECURSIVE Tree(_, _)

\* the nested mapping the dict object at address a holds
Tree(h, a) ==
    [i \in 1..Len(h[a]) |->
        IF IsDict(h[a][i].value)
        THEN Item(h[a][i].key, Dict(Tree(h, h[a][i].value.ref)))
        ELSE h[a][i]]

ValueTree(h, value) == IF IsDict(value) THEN Dict(Tree(h, value.ref)) ELSE value

RECURSIVE IsMergeOf(_, _, _, _, _)

\* the dict at r in heap h2 is what the merge of the dicts at b and u in heap h1 must be
IsMergeOf(h2, r, h1, b, u) ==
    /\ Keys(h2[r]) = Keys(h1[b]) \cup Keys(h1[u])
    /\ \A k \in Keys(h1[u]) :
         IF HasKey(h1[b], k) /\ IsDict(Lookup(h1[b], k)) /\ IsDict(Lookup(h1[u], k))
         THEN /\ IsDict(Lookup(h2[r], k))
              /\ IsMergeOf(h2, Lookup(h2[r], k).ref,
                           h1, Lookup(h1[b], k).ref, Lookup(h1[u], k).ref)
         ELSE ValueTree(h2, Lookup(h2[r], k)) = ValueTree(h1, Lookup(h1[u], k))
    /\ \A k \in Keys(h1[b]) \ Keys(h1[u]) :
         ValueTree(h2, Lookup(h2[r], k)) = ValueTree(h1, Lookup(h1[b], k))

MergeStep == pc = "merge" /\ pc' = "merged"

\* C10: deep_merge(base, update) returns a mapping over the union of both key
\* sets; a key of both whose two values are mappings holds their recursive
\* merge, every other key of update holds update's value, a key of base alone
\* keeps base's value; and base, update and their nested mappings are the same
\* after the call as before it.
C10_DeepMerge ==
    [][MergeStep =>
        /\ IsMergeOf(heap', roots'.merged, heap, roots.base, roots.update)
        /\ Tree(heap', roots.base) = Tree(heap, roots.base)
        /\ Tree(heap', roots.update) = Tree(heap, roots.update)]_vars

\* a merge three levels deep: the sonnet rule keeps its place and gets its
\* rates from update, opus is added after it, the currency section is kept,
\* and both arguments still hold what they held
C10_Witness ==
    /\ pc = "merged"
    /\ Tree(heap, roots.base) =
         << Item(k_currency, Lit(7)),
            Item(k_pricing, Dict(<< Item(sonnet, Dict(<< Item(k_input_per_million, Lit(3)) >>)) >>)) >>
    /\ Tree(heap, roots.update) =
         << Item(k_pricing,
                 Dict(<< Item(opus, Dict(<< Item(k_input_per_million, Lit(5)), Item(k_output_per_million, Lit(15)) >>)),
                         Item(sonnet, Dict(<< Item(k_output_per_million, Lit(7)), Item(k_input_per_million, Lit(1)) >>)) >>)) >>
    /\ Tree(heap, roots.merged) =
         << Item(k_currency, Lit(7)),
            Item(k_pricing,
                 Dict(<< Item(sonnet, Dict(<< Item(k_input_per_million, Lit(1)), Item(k_output_per_million, Lit(7)) >>)),
                         Item(opus, Dict(<< Item(k_input_per_million, Lit(5)), Item(k_output_per_million, Lit(15)) >>)) >>)) >>

-----------------------------------------------------------------------------
(* Further properties of the aggregator, checked under Spec *)

\* C14: when the run has finished, projects_active of every day is the number
\* of keys of the day's project_breakdown; the folding of a record never
\* writes it (a day is created with 0 and keeps what it has).
C14_ProjectsActive ==
    [][/\ pc' = "done" =>
            \A dt \in DOMAIN daily_stats' :
                daily_stats'[dt].projects_active =
                    Cardinality(DOMAIN daily_stats'[dt].project_breakdown)
       /\ LineStep =>
            \A dt \in DOMAIN daily_stats' :
                daily_stats'[dt].projects_active =
                    IF dt \in DOMAIN daily_stats
                    THEN daily_stats[dt].projects_active ELSE 0]_vars

\* a finished run with two projects, a day both were active on and a day
\* only one was
C14_Witness ==
    /\ pc = "done"
    /\ Cardinality(DOMAIN project_stats) = 2
    /\ \E d1, d2 \in DOMAIN daily_stats :
          /\ daily_stats[d1].projects_active = 2
          /\ daily_stats[d2].projects_active = 1

\* a call that gets a cache and goes through the resolution of its model name
ResolvingCall ==
    /\ pc = "cost" /\ pc' = "called"
    /\ model_config_cache.present
    /\ Len(pricing_config) > 0
    /\ IsStr(call'.model_name)

\* C13 as claimed: after a call has resolved a model name with a cache passed
\* in, the cache holds an entry for that name, whether a rule was found or
\* not, and every entry the cache held is still there with the same rule.
C13_ResolutionMemoized ==
    [][ResolvingCall =>
          /\ call'.model_name \in DOMAIN model_config_cache'.map
          /\ \A k \in DOMAIN model_config_cache.map :
                /\ k \in DOMAIN model_config_cache'.map
                /\ model_config_cache'.map[k] = model_config_cache.map[k]]_vars

-----------------------------------------------------------------------------
(* Properties of load_full_config, checked under SpecLoad *)

SourceNames == {"packaged", "beside", "home"}

\* a source that gives no override: missing, unreadable, rejected by the
\* parser, or holding a document that is no mapping
Fails(src) == src.t # "parsed" \/ ~IsMapping(src.doc)

RECURSIVE Holds(_, _, _)

\* the dict at address a holds every value of the nested mapping tree
Holds(h, a, tree) ==
    \A i \in 1..Len(tree) :
        /\ HasKey(h[a], tree[i].key)
        /\ IF "dict" \in DOMAIN tree[i].value
           THEN /\ IsDict(Lookup(h[a], tree[i].key))
                /\ Holds(h, Lookup(h[a], tree[i].key).ref, tree[i].value.dict)
           ELSE Lookup(h[a], tree[i].key) = tree[i].value

\* C11: load_full_config never raises: whatever the three sources are, every
\* exception ends in one of its except clauses and the call is at one of its
\* three steps or has returned a configuration; when no source gives an override the configuration
\* returned is the built-in default.
C11_LoadNeverRaises ==
    /\ pc # "raised"
    /\ pc \in {"packaged", "beside", "home", "returned"}
    /\ (pc = "returned" /\ \A n \in SourceNames : Fails(sources[n]))
          => Tree(heap, roots.config) = get_default_config

\* the packaged file is rejected by the parser, there is no file beside the
\* module, the home file holds a bare string: the defaults are returned
C11_Witness ==
    /\ pc = "returned"
    /\ sources.importlib
    /\ sources.packaged = Malformed
    /\ sources.beside = Missing
    /\ sources.home = Parsed(DocText)
    /\ Tree(heap, roots.config) = get_default_config

\* C12 as claimed: whenever the file of the home directory exists and parses
\* to a mapping, the configuration returned holds its values, whatever the
\* packaged file and the file beside the module were.
C12_HomeOverrideAlwaysMerged ==
    (pc = "returned" /\ sources.home.t = "parsed" /\ IsMapping(sources.home.doc))
       => Holds(heap, roots.config, sources.home.doc.dict)

\* the rule a value of the pricing section is, as calculate_model_cost reads it
RuleOf(h, value) ==
    IF ~IsDict(value) THEN value.lit
    ELSE LET d == h[value.ref]
             names == { RuleFields[i].name : i \in { j \in 1..Len(RuleFields) :
                                                       HasKey(d, RuleFields[j].key) } }
             KeyOf(n) == RuleFields[CHOOSE i \in 1..Len(RuleFields) :
                                       RuleFields[i].name = n].key
         IN  [n \in names |->
                LET v == Lookup(d, KeyOf(n)).lit
                IN  IF n = "currency" THEN v.s
                    ELSE IF n = "tiers" THEN v.list
                    ELSE v]

\* billing.py lines 167-170: full_config.get("pricing", {}), the catalog in
\* the order of the dict object (the pricing section of every document here
\* is a mapping)
load_model_pricing(h, config) ==
    IF ~HasKey(h[config], k_pricing) THEN <<>>
    ELSE LET d == h[Lookup(h[config], k_pricing).ref]
         IN  [i \in 1..Len(d) |-> [key |-> d[i].key, value |-> RuleOf(h, d[i].value)]]

DefaultKeys == { DefaultPricing[i].key : i \in 1..Len(DefaultPricing) }

\* model names that hold both a default key and a key an override adds
PrecedenceNames == { claude_3_sonnet, claude_3_sonnet_20240229, Claude_3_Sonnet, sonnet }

\* key is contained in the model name, ignoring case
Matches(key, model_name) == StrIn(StrLower(key), StrLower(model_name))

\* C26: in the catalog load_full_config returns, every key of the defaults
\* stands before every key that only an override adds; so a model name that
\* holds a default key and is no added key (ignoring case) resolves to the
\* rule of the first default key it holds, never to the rule of an added key.
C26_DefaultsKeepPrecedence ==
    pc = "returned" =>
       LET pricing == load_model_pricing(heap, roots.config)
           added == { j \in 1..Len(pricing) : pricing[j].key \notin DefaultKeys }
           defaults == { i \in 1..Len(pricing) : pricing[i].key \in DefaultKeys }
       IN  /\ \A i \in defaults : \A j \in added : i < j
           /\ \A i \in defaults : pricing[i].key = DefaultPricing[i].key
           /\ \A m \in PrecedenceNames :
                LET held == { i \in defaults : Matches(pricing[i].key, m) }
                IN  (/\ held # {}
                     /\ \A j \in added : StrLower(pricing[j].key) # StrLower(m))
                       => /\ FindModelConfig(Str(m), pricing) = pricing[Min(held)].value
                          /\ \A j \in added :
                                Matches(pricing[j].key, m)
                                   => FindModelConfig(Str(m), pricing) # pricing[j].value

\* the home file overrides sonnet and adds claude-3-sonnet: the added key is
\* the sixth, claude-3-sonnet-20240229 is priced by the sonnet rule with the
\* overridden input rate, and only the name equal to the added key gets its rule
C26_Witness ==
    /\ pc = "returned"
    /\ sources.home = Parsed(Dict(CatalogOverride))
    /\ LET pricing == load_model_pricing(heap, roots.config)
       IN  /\ Len(pricing) = Len(DefaultPricing) + 1
           /\ pricing[Len(pricing)].key = claude_3_sonnet
           /\ pricing[1].key = sonnet
           /\ FindModelConfig(Str(claude_3_sonnet_20240229), pricing) = pricing[1].value
           /\ pricing[1].value.input_per_million = Hundredths(500)
           /\ pricing[1].value.output_per_million = Hundredths(1500)
           /\ FindModelConfig(Str(Claude_3_Sonnet), pricing) = pricing[Len(pricing)].value
           /\ pricing[Len(pricing)].value =
                [input_per_million |-> Hundredths(400),
                 output_per_million |-> Hundredths(1600)]

\* no key of project_stats, daily_stats, a project_breakdown or model_stats
\* is removed by the step
KeysKept ==
    /\ DOMAIN project_stats \subseteq DOMAIN project_stats'
    /\ DOMAIN model_stats \subseteq DOMAIN model_stats'
    /\ \A dt \in DOMAIN daily_stats :
          /\ dt \in DOMAIN daily_stats'
          /\ DOMAIN daily_stats[dt].project_breakdown
                \subseteq DOMAIN daily_stats'[dt].project_breakdown

\* after the step every day, day-project and model aggregate holds a message
FoldedInto ==
    /\ \A dt \in DOMAIN daily_stats' :
          /\ daily_stats'[dt].total_messages >= 1
          /\ \A p \in DOMAIN daily_stats'[dt].project_breakdown :
                daily_stats'[dt].project_breakdown[p].total_messages >= 1
    /\ \A m \in DOMAIN model_stats' : model_stats'[m].total_messages >= 1

\* C25 as claimed: every aggregate that exists, project aggregates included,
\* holds at least one folded record, and no key is ever removed.
C25_AggregatesOnlyWithRecords ==
    [][/\ KeysKept
       /\ FoldedInto
       /\ \A p \in DOMAIN project_stats' : project_stats'[p].total_messages >= 1]_vars

\* C25, amended: day, day-project and model aggregates are created by the first
\* record folded under their key and hold at least one message; a project
\* aggregate is created, empty, when its directory is entered, before any
\* record is read; no key is ever removed.
C25_LazyNeverDeleted ==
    [][/\ KeysKept
       /\ FoldedInto
       /\ \A p \in DOMAIN project_stats' \ DOMAIN project_stats :
             /\ pc = "idle" /\ pc' = "dir"
             /\ p = cur_project'
             /\ project_stats'[p] = ProjectStats(p)]_vars

\* a finished run with days and with a project that holds no message
C25_Witness ==
    /\ pc = "done"
    /\ DOMAIN daily_stats # {}
    /\ \E p \in DOMAIN project_stats : project_stats[p].total_messages = 0

\* C29: for every project, each token counter and total_messages equals the
\* sum of the same field over the project's entries in the days'
\* project_breakdown, also after records whose processing raised.
C29_ProjectEqualsBreakdownSum ==
    \A p \in DOMAIN project_stats :
        LET days == {dt \in DOMAIN daily_stats : p \in DOMAIN daily_stats[dt].project_breakdown}
        IN  \A f \in CounterFields :
               project_stats[p][f] =
                  IntSum([dt \in days |-> daily_stats[dt].project_breakdown[p][f]], days)

\* x <= y on rationals, over the least common denominator
RatLeq(x, y) ==
    LET g == GCD(x.d, y.d)
        l == (x.d \div g) * y.d
    IN  x.n * (l \div x.d) <= y.n * (l \div y.d)

\* no counter and no cost of the aggregate new is below that of old
NotBelow(old, new) ==
    /\ old.total_input_tokens <= new.total_input_tokens
    /\ old.total_output_tokens <= new.total_output_tokens
    /\ old.total_cache_read_tokens <= new.total_cache_read_tokens
    /\ old.total_cache_creation_tokens <= new.total_cache_creation_tokens
    /\ old.total_messages <= new.total_messages
    /\ RatLeq(old.total_cost, new.total_cost)

\* C20: from one record to the next, every token counter, total_messages and
\* total_cost of every project, day, day-project and model aggregate is
\* non-decreasing, negative token counts included.
C20_NonDecreasing ==
    [][LineStep =>
          /\ \A p \in DOMAIN project_stats : NotBelow(project_stats[p], project_stats'[p])
          /\ \A dt \in DOMAIN daily_stats :
                /\ NotBelow(daily_stats[dt], daily_stats'[dt])
                /\ \A p \in DOMAIN daily_stats[dt].project_breakdown :
                      NotBelow(daily_stats[dt].project_breakdown[p],
                               daily_stats'[dt].project_breakdown[p])
          /\ \A m \in DOMAIN model_stats : NotBelow(model_stats[m], model_stats'[m])]_vars

-----------------------------------------------------------------------------
(* Properties of the run and its report, checked under SpecReport *)

\* int() rejects the value: text that is no number, or an array or object
Unconvertible(v) == "text" \in DOMAIN v \/ "list" \in DOMAIN v

\* the token conversions of the record end on a value int() rejects: a field
\* is unconvertible, and no field converted before it holds infinity
UnconvertibleRecord(d) ==
    /\ HasUsage(d)
    /\ \E i \in 1..Len(TokenKeys) :
          /\ TokenKeys[i] \in DOMAIN d.message.usage
          /\ Unconvertible(d.message.usage[TokenKeys[i]])
          /\ \A j \in 1..(i - 1) :
                TokenKeys[j] \in DOMAIN d.message.usage
                   => "inf" \notin DOMAIN d.message.usage[TokenKeys[j]]

FoldableRecord(d) ==
    /\ HasUsage(d)
    /\ \A i \in 1..Len(TokenKeys) :
          TokenKeys[i] \in DOMAIN d.message.usage =>
             \/ d.message.usage[TokenKeys[i]] = NoneVal
             \/ "int" \in DOMAIN d.message.usage[TokenKeys[i]]
    /\ ~ZeroRecord(d)
    /\ "model" \in DOMAIN d.message
    /\ IsStr(d.message.model)

\* the step adds one message to day dt and leaves every other day alone
CountedOn(dt) ==
    /\ dt \in DOMAIN daily_stats'
    /\ daily_stats'[dt].total_messages =
          OrNew(daily_stats, dt, DailyStats(dt)).total_messages + 1
    /\ \A k \in DOMAIN daily_stats' \ {dt} :
          k \in DOMAIN daily_stats /\ daily_stats'[k] = daily_stats[k]

\* C16: a record with a missing or unparseable timestamp is folded and counted
\* on the file's creation date, which is unknown only when that date is
\* unavailable; a record with a parseable timestamp is counted on the local
\* date of its timestamp, whatever the file's creation date.
C16_TimestampFallback ==
    [][(LineStep /\ FoldableRecord(data')) =>
          /\ ret' = "True"
          /\ data'.timestamp.t # "iso" => CountedOn(fallback_date)
          /\ data'.timestamp.t = "iso" =>
                CountedOn(FormatDate(data'.timestamp.y, data'.timestamp.m,
                                     data'.timestamp.d + (data'.timestamp.h + 8) \div 24))]_vars

\* a record with a timestamp fromisoformat rejects was counted on the file's
\* creation date, and no day unknown exists
C16_Witness ==
    /\ pc = "file"
    /\ ret = "True"
    /\ data.timestamp.t = "bad"
    /\ fallback_date # Unknown
    /\ fallback_date \in DOMAIN daily_stats
    /\ Unknown \notin DOMAIN daily_stats

\* new is old plus the record's tokens, its cost and one message
FoldedAt(old, new, tk, cost) ==
    /\ new.total_input_tokens = old.total_input_tokens + tk.input
    /\ new.total_output_tokens = old.total_output_tokens + tk.output
    /\ new.total_cache_read_tokens = old.total_cache_read_tokens + tk.cache_read
    /\ new.total_cache_creation_tokens = old.total_cache_creation_tokens + tk.cache_creation
    /\ new.total_messages = old.total_messages + 1
    /\ new.total_cost = RatAdd(old.total_cost, cost)

\* C17: a record attributed to the date unknown adds its tokens, its cost and
\* one message to its project and to its model, and leaves the project's
\* first_message_date and last_message_date as they were.
C17_UnknownStillCounts ==
    [][(/\ LineStep
        /\ FoldableRecord(data')
        /\ data'.timestamp.t # "iso"
        /\ fallback_date = Unknown) =>
        LET tk == Tokens(data'.message.usage)
            m == data'.message.model
            c == calculate_model_cost(m, tk, pricing_config, model_config_cache,
                                      currency_config)
            cost == IF c.raised THEN Zero ELSE c.cost
        IN  /\ ret' = "True"
            /\ FoldedAt(project_stats[cur_project], project_stats'[cur_project], tk, cost)
            /\ FoldedAt(OrNew(model_stats, m, ModelStats(m)), model_stats'[m], tk, cost)
            /\ project_stats'[cur_project].first_message_date =
                  project_stats[cur_project].first_message_date
            /\ project_stats'[cur_project].last_message_date =
                  project_stats[cur_project].last_message_date]_vars

\* a record was counted on the day unknown, at a cost, in a project that
\* already had its dates
C17_Witness ==
    /\ pc = "file"
    /\ ret = "True"
    /\ data.timestamp.t = "empty"
    /\ fallback_date = Unknown
    /\ Unknown \in DOMAIN daily_stats
    /\ daily_stats[Unknown].total_cost # Zero
    /\ project_stats[cur_project].total_messages = 2
    /\ project_stats[cur_project].first_message_date # NoDate

\* C18: the sentinel date unknown is never a row of the daily table, for
\* every max_days including 0.
C18_UnknownNeverARow ==
    pc = "reported" => \A i \in 1..Len(report.rows) : report.rows[i] # Unknown

\* the dates other than unknown on which records of project p were folded
ProjectDates(p) ==
    {dt \in DOMAIN daily_stats :
        dt # Unknown /\ p \in DOMAIN daily_stats[dt].project_breakdown}

\* C19: for every project, first_message_date is the least and
\* last_message_date the greatest of the dates other than unknown of the
\* records folded into it; both are unset exactly when there is no such
\* record, and first_message_date <= last_message_date when they are set.
C19_DateRange ==
    \A p \in DOMAIN project_stats :
        LET D == ProjectDates(p)
            first == project_stats[p].first_message_date
            last == project_stats[p].last_message_date
        IN  IF D = {}
            THEN first = NoDate /\ last = NoDate
            ELSE /\ first \in D
                 /\ last \in D
                 /\ \A dt \in D : dt = first \/ StrLess(first, dt)
                 /\ \A dt \in D : dt = last \/ StrLess(dt, last)
                 /\ first = last \/ StrLess(first, last)

\* a project with records on two days and on the day unknown
C19_Witness ==
    \E p \in DOMAIN project_stats :
        /\ Cardinality(ProjectDates(p)) = 2
        /\ Unknown \in DOMAIN daily_stats
        /\ p \in DOMAIN daily_stats[Unknown].project_breakdown
        /\ StrLess(project_stats[p].first_message_date, project_stats[p].last_message_date)

-----------------------------------------------------------------------------
(* Properties of the run over directories, checked under SpecRun *)

\* C21: a file is completed or abandoned entirely: whenever the loop over a
\* file ends, normally or on a read error, the count the file reports is the
\* number of its records that were folded into the aggregates.
C21_FileAllOrNothing ==
    [][(pc = "file" /\ pc' = "dir") => file_messages' = messages_processed]_vars

\* C22: no input aborts a run: analyze_directory never raises.
C22_NoInputAborts == pc # "aborted"

-----------------------------------------------------------------------------
(* Further properties of calculate_model_cost, checked under SpecCost *)

\* the cost of tokens tk at the four rates of one tier, a rate the tier
\* lacks counting as 0, in the currency of the call's rule
TierCost(tier, tk) ==
    LET rate(key) == IF key \in DOMAIN tier THEN tier[key] ELSE Zero
        total == RatAdd(RatAdd(RatAdd(
                     RatMul(Rat(tk.input, 1000000), rate("input_per_million")),
                     RatMul(Rat(tk.output, 1000000), rate("output_per_million"))),
                     RatMul(Rat(tk.cache_read, 1000000), rate("cache_read_per_million"))),
                     RatMul(Rat(tk.cache_creation, 1000000), rate("cache_write_per_million")))
    IN  ConvertModelCurrency(total, ResolvedRule, currency_config)

\* the token counts that share the input count of the call
OtherCounts == {0, 3}

SameInput ==
    {[input |-> call.tk.input, output |-> o, cache_read |-> cr, cache_creation |-> cc] :
        o \in OtherCounts \cup {call.tk.output},
        cr \in OtherCounts \cup {call.tk.cache_read},
        cc \in OtherCounts \cup {call.tk.cache_creation}}

\* C23: the tier depends on the input-token count alone: one tier of the rule
\* gives all four rates of every call with the rule and the input count of
\* this call, whatever its output, cache-read and cache-creation counts.
C23_TierByInputOnly ==
    (TieredCall /\ Len(ResolvedRule.tiers) > 0) =>
        \E i \in 1..Len(ResolvedRule.tiers) :
            \A tk \in SameInput :
                LET r == calculate_model_cost(call.model_name, tk, pricing_config,
                                              NoCache, currency_config)
                IN  ~r.raised /\ r.cost = TierCost(ResolvedRule.tiers[i], tk)

\* a call at the threshold of the first of two tiers, with output and cache
\* tokens, whose cost the other tier would not give
C23_Witness ==
    /\ TieredCall
    /\ Len(ResolvedRule.tiers) = 2
    /\ ThresholdOf(ResolvedRule.tiers[1]) = <<0, 10>>
    /\ ThresholdOf(ResolvedRule.tiers[2]) = <<0, 20>>
    /\ call.tk.input = 10
    /\ call.tk.output > 0
    /\ call.tk.cache_read > 0
    /\ result.cost = TierCost(ResolvedRule.tiers[1], call.tk)
    /\ result.cost # TierCost(ResolvedRule.tiers[2], call.tk)

NoThresholds(tiers) == \A i \in 1..Len(tiers) : "threshold" \notin DOMAIN tiers[i]

\* C24 as claimed: when no tier has a threshold, the sole tier, or with several
\* the last one after sorting by threshold, gives the rates
C24_LastTierWithoutThreshold ==
    (TieredCall /\ Len(ResolvedRule.tiers) > 0 /\ NoThresholds(ResolvedRule.tiers)) =>
        LET tiers == ResolvedRule.tiers
            sorted == SortedTiers(tiers)
        IN  result.cost = TierCost(sorted[Len(sorted)], call.tk)

\* C24, amended: when no tier has a threshold, the sole tier, or with several
\* the first one in the order the rule lists them, gives the rates, for every
\* input-token count
C24_FirstTierWithoutThreshold ==
    (TieredCall /\ Len(ResolvedRule.tiers) > 0 /\ NoThresholds(ResolvedRule.tiers)) =>
        result.cost = TierCost(ResolvedRule.tiers[1], call.tk)

C24_Witness ==
    /\ TieredCall
    /\ Len(ResolvedRule.tiers) = 2
    /\ NoThresholds(ResolvedRule.tiers)
    /\ call.tk.input > 200000
    /\ result.cost = TierCost(ResolvedRule.tiers[1], call.tk)
    /\ result.cost # TierCost(ResolvedRule.tiers[2], call.tk)

\* the rule has a flat rate beside its tiers
MixedRule == DOMAIN ResolvedRule \cap DOMAIN FlatRates # {}

\* C27: a rule with tiers and flat rates is charged at the rates of the
\* selected tier alone: a rate the tier lacks counts as 0, and a rule whose
\* tiers list is empty charges nothing.
C27_TiersOverrideFlatRates ==
    (TieredCall /\ MixedRule) =>
        LET selected_tier == SelectTier(ResolvedRule.tiers, call.tk.input)
        IN  result.cost = TierCost(IF Truthy(selected_tier) THEN selected_tier ELSE EmptyDict,
                                   call.tk)

\* a call with output tokens whose tier has no output rate: the flat output
\* rate of the rule is not charged
C27_Witness ==
    /\ TieredCall
    /\ MixedRule
    /\ Len(ResolvedRule.tiers) = 1
    /\ "output_per_million" \notin DOMAIN ResolvedRule.tiers[1]
    /\ call.tk.output > 0
    /\ result.cost = TierCost([input_per_million |-> ResolvedRule.tiers[1].input_per_million],
                              call.tk)
    /\ result.cost # Zero

\* C28: the cache is transparent: every call returns, with the cache shared
\* by the calls before it, what it returns with no cache at all, and every
\* cache entry is the rule a fresh resolution of its model name selects.
C28_CacheTransparent ==
    /\ pc = "called" =>
          LET fresh == calculate_model_cost(call.model_name, call.tk, pricing_config,
                                            NoCache, currency_config)
          IN  result.raised = fresh.raised /\ result.cost = fresh.cost
    /\ \A k \in DOMAIN model_config_cache.map :
          model_config_cache.map[k] = FindModelConfig(k, pricing_config)

\* a call answered from a cache of two entries, at a cost
C28_Witness ==
    /\ pc = "called"
    /\ Cardinality(DOMAIN model_config_cache.map) = 2
    /\ call.model_name \in DOMAIN model_config_cache.map
    /\ result.cache = model_config_cache
    /\ result.cost # Zero

-----------------------------------------------------------------------------
(* The same records handed to two analyzers in two orders *)

\* a record with the directory and the file it is read from
Tagged(project_name, fallback, d) ==
    [project |-> project_name, fallback |-> fallback, data |-> d]

\* records that are folded whole, over two projects, four models and the
\* dates 2024-01-01, 2024-01-02 (a file's date) and "unknown"
BatchRecords ==
    { Tagged("alpha", FormatDate(2024, 1, 2),
             Assistant(Usage(IntVal(3), IntVal(2), IntVal(1), IntVal(1)),
                       Str(claude_sonnet_4), Morning)),
      Tagged("alpha", FormatDate(2024, 1, 2),
             Assistant(Usage(IntVal(5), IntVal(1), IntVal(0), IntVal(0)),
                       Str(qwen3_coder), NoTimestamp)),
      Tagged("alpha", Unknown,
             Assistant(Usage(IntVal(-1), IntVal(2), IntVal(0), IntVal(0)),
                       Str(Claude_Opus), BadTimestamp)),
      Tagged("beta", Unknown,
             Assistant(Usage(IntVal(2), NoneVal, IntVal(0), IntVal(0)),
                       Str(gpt_4o), Evening)) }

Batches == UNION { [1..n -> BatchRecords] : n \in 1..MaxRecords }

\* two analyzers after __init__ and after lines 146-147 for both projects
InitOrder ==
    /\ project_stats = DictPut(DictPut(<<>>, "alpha", ProjectStats("alpha")),
                               "beta", ProjectStats("beta"))
    /\ daily_stats = <<>>
    /\ model_stats = <<>>
    /\ pricing_config = DefaultPricing
    /\ currency_config \in AnalyzerCurrencies
    /\ model_config_cache = EmptyCache
    /\ pc = "batch"
    /\ cur_project = ""
    /\ fallback_date = Unknown
    /\ nrec = 0
    /\ data = NoData
    /\ ret = "none"
    /\ call = NoCall
    /\ result = NoResult
    /\ sources = NoSources
    /\ report = NoReport
    /\ messages_processed = 0
    /\ file_messages = 0
    /\ heap = <<>>
    /\ roots = <<>>
    /\ records \in Batches
    /\ \E q \in Perms(Len(records)) : replay = [order |-> q, state |-> State]

\* analyzer.py lines 183-195: the next record of each analyzer; the first folds
\* the records as listed, the second in the order replay.order
FoldNext ==
    /\ pc = "batch"
    /\ nrec < Len(records)
    /\ nrec' = nrec + 1
    /\ pc' = IF nrec + 1 = Len(records) THEN "folded" ELSE "batch"
    /\ \E a \in {_process_message(State, records[nrec + 1].data,
                                   records[nrec + 1].project, records[nrec + 1].fallback,
                                   pricing_config, currency_config)} :
           /\ project_stats' = a.state.project_stats
           /\ daily_stats' = a.state.daily_stats
           /\ model_stats' = a.state.model_stats
           /\ model_config_cache' = a.state.model_config_cache
    /\ \E b \in {_process_message(replay.state, records[replay.order[nrec + 1]].data,
                                   records[replay.order[nrec + 1]].project,
                                   records[replay.order[nrec + 1]].fallback,
                                   pricing_config, currency_config)} :
           replay' = [order |-> replay.order, state |-> b.state]
    /\ UNCHANGED <<pricing_config, currency_config, cur_project, fallback_date,
                   data, ret, call, result, heap, roots, sources, report,
                   messages_processed, file_messages, records>>

NextOrder == FoldNext

SpecOrder == InitOrder /\ [][NextOrder]_vars

\* an aggregate without its cost
Counters(s) == [s EXCEPT !.total_cost = Zero]

\* the keys, token counters, message counts, model counts and date ranges of
\* every project, day, day-project and model aggregate of an analyzer
CountersOf(st) ==
    [project_stats |-> [p \in DOMAIN st.project_stats |-> Counters(st.project_stats[p])],
     daily_stats |->
        [dt \in DOMAIN st.daily_stats |->
            [Counters(st.daily_stats[dt]) EXCEPT !.project_breakdown =
                [p \in DOMAIN @ |-> Counters(@[p])]]],
     model_stats |-> [m \in DOMAIN st.model_stats |-> Counters(st.model_stats[m])]]

\* C30: the aggregates do not depend on the order the records are folded in:
\* for every batch of valid records and every permutation of it, both
\* analyzers hold the same aggregate keys and, in every project, day,
\* day-project and model aggregate, the same token counters, total_messages,
\* models_used counts, first_message_date and last_message_date.
C30_OrderIndependent ==
    pc = "folded" =>
       /\ \A i \in 1..Len(records) : FoldableRecord(records[i].data)
       /\ CountersOf(State) = CountersOf(replay.state)

\* three records of alpha dated 01-02 (the file's date), "unknown" and 01-01,
\* folded in that order and in the order 01-01, 01-02, "unknown"
C30_Witness ==
    /\ pc = "folded"
    /\ Len(records) = 3
    /\ replay.order = <<3, 1, 2>>
    /\ \A i \in 1..3 : records[i].project = "alpha"
    /\ records[1].data.timestamp = NoTimestamp
    /\ records[2].data.timestamp = BadTimestamp
    /\ records[3].data.timestamp = Morning
    /\ project_stats["alpha"].total_messages = 3
    /\ project_stats["alpha"].total_input_tokens = 7
    /\ project_stats["alpha"].first_message_date = FormatDate(2024, 1, 1)
    /\ project_stats["alpha"].last_message_date = FormatDate(2024, 1, 2)
    /\ replay.state.project_stats["alpha"].last_message_date = FormatDate(2024, 1, 2)
    /\ DOMAIN daily_stats = {FormatDate(2024, 1, 1), FormatDate(2024, 1, 2), Unknown}
    /\ DOMAIN model_stats = {Str(claude_sonnet_4), Str(qwen3_coder), Str(Claude_Opus)}
    /\ replay.state.model_config_cache = model_config_cache

====
